---- MODULE Spec2Model ----
(***************************************************************************)
(* The restricted SFTP gateway of damischa1/sftp-service: the per-session  *)
(* virtual filesystem (path whitelist, per-directory policy, buffered      *)
(* write handles) in its three deployments, and the storage adapters it    *)
(* dispatches to.                                                          *)
(*                                                                         *)
(*   variant "s3"     S3FileSystem  + S3Storage + PostgreSQL incoming_files *)
(*   variant "webapi" APIFileSystem + PricelistWebAPIStorage +              *)
(*                    IncomingOrdersStorage (HTTP)                          *)
(*   variant "futur"  APIFileSystem (second revision) calling               *)
(*                    DownloadPricelist / SendOrderToAPI directly           *)
(*                                                                         *)
(* Paths, file names and error messages are Go strings and are modelled by *)
(* TLA+ strings.  A []byte is modelled by its length and its non-zero      *)
(* bytes (offset -> byte); every other offset below the length reads 0.    *)
(***************************************************************************)
EXTENDS Integers, Sequences, FiniteSets, TLC

VARIABLES variant, backend, session, handles, table, bucket, reply

vars == <<variant, backend, session, handles, table, bucket, reply>>

(***************************************************************************)
(* Bounds of the model.                                                    *)
(***************************************************************************)
MaxHandles == 1
MaxWrites == 2
MaxDirs == 1

(***************************************************************************)
(* Program constants.                                                      *)
(***************************************************************************)
MaxFileSize == 102400
PricelistSize == 2097152

Variants == {"s3", "webapi", "futur"}
Conns == {"c1"}
(* The connections the server serves at the same time. *)
Sessions == {"c1", "c2"}
Users == {"alice", "bob"}

(* What the world behind the adapters does with a request: it answers, it  *)
(* cannot be reached (transport error, query error), or it answers with a  *)
(* failure status (HTTP 500).                                              *)
BackendStates == {"ok", "unreachable", "http500"}

(***************************************************************************)
(* Go's strings package.                                                   *)
(***************************************************************************)
HasPrefix(s, prefix) ==
    /\ Len(s) >= Len(prefix)
    /\ SubSeq(s, 1, Len(prefix)) = prefix

HasSuffix(s, suffix) ==
    /\ Len(s) >= Len(suffix)
    /\ SubSeq(s, Len(s) - Len(suffix) + 1, Len(s)) = suffix

TrimPrefix(s, prefix) ==
    IF HasPrefix(s, prefix) THEN SubSeq(s, Len(prefix) + 1, Len(s)) ELSE s

Contains(s, substr) ==
    \E i \in 1..(Len(s) - Len(substr) + 1) : SubSeq(s, i, i + Len(substr) - 1) = substr

(* filepath.Base: the reply element of the path; trailing slashes are       *)
(* dropped, "" gives ".", a path of slashes only gives "/".                *)
RECURSIVE StripTrailingSlashes(_)
StripTrailingSlashes(p) ==
    IF Len(p) > 0 /\ HasSuffix(p, "/")
    THEN StripTrailingSlashes(SubSeq(p, 1, Len(p) - 1))
    ELSE p

RECURSIVE LastElement(_)
LastElement(p) ==
    IF Contains(p, "/")
    THEN LastElement(SubSeq(p, 2, Len(p)))
    ELSE p

(* Base with the directory left on the name. *)
Base_WholePath(path) == path

Base(path) ==
    IF path = "" THEN "."
    ELSE LET stripped == StripTrailingSlashes(path)
         IN  IF stripped = "" THEN "/" ELSE LastElement(stripped)

(***************************************************************************)
(* Byte slices.                                                            *)
(***************************************************************************)
EmptyBytes == [len |-> 0, nz |-> <<>>]

(* The slice holding the bytes of the sequence p. *)
Bytes(p) ==
    [len |-> Len(p),
     nz  |-> [o \in {i - 1 : i \in {j \in 1..Len(p) : p[j] # 0}} |-> p[o + 1]]]

ByteAt(b, o) == IF o \in DOMAIN b.nz THEN b.nz[o] ELSE 0

(* make([]byte, needed) followed by copy(newData, w.data) *)
Grow(data, needed) == [len |-> needed, nz |-> data.nz]

(* copy(w.data[off:], p): min(len(w.data) - off, len(p)) bytes are copied *)
CopyAt(data, off, p) ==
    LET n       == IF data.len - off < Len(p) THEN data.len - off ELSE Len(p)
        covered == {off + i : i \in 0..(n - 1)}
        kept    == (DOMAIN data.nz \ covered) \cup {o \in covered : p[o - off + 1] # 0}
    IN  [len |-> data.len,
         nz  |-> [o \in kept |-> IF o \in covered THEN p[o - off + 1] ELSE data.nz[o]]]

(***************************************************************************)
(* Path policy.                                                            *)
(***************************************************************************)
allowedDirs == <<"/", "/in", "/Hinnat">>

Realpath(path) ==
    LET p1 == IF path = "" \/ path = "." THEN "/" ELSE path
    IN  IF ~HasPrefix(p1, "/") THEN "/" \o p1 ELSE p1

isPathAllowed(path) ==
    LET p1 == IF path = "" \/ path = "." THEN "/" ELSE path
        p2 == IF ~HasPrefix(p1, "/") THEN "/" \o p1 ELSE p1
    IN  \E i \in 1..Len(allowedDirs) :
            p2 = allowedDirs[i] \/ HasPrefix(p2, allowedDirs[i] \o "/")

(* isWriteAllowed that lets writes into /Hinnat as well. *)
APIFileSystem_isWriteAllowed_Hinnat(path) ==
    IF path = "/" THEN FALSE
    ELSE \/ HasPrefix(path, "/in/") \/ HasPrefix(path, "/Hinnat/")
         \/ path = "/in" \/ path = "/Hinnat"

APIFileSystem_isWriteAllowed(path) ==
    IF path = "/" THEN FALSE
    ELSE HasPrefix(path, "/in/") \/ path = "/in"

S3FileSystem_isWriteAllowed(path) ==
    IF path = "/" THEN FALSE
    ELSE \/ HasPrefix(path, "/in/") \/ HasPrefix(path, "/Hinnat/")
         \/ path = "/in" \/ path = "/Hinnat"

isInIncomingDirectory(path) ==
    HasPrefix(path, "/in/") /\ ~Contains(TrimPrefix(path, "/in/"), "/")

(***************************************************************************)
(* Results.  An adapter operation returns its error ("" is nil), its data  *)
(* or entries, and the requests it sent to the world behind it.            *)
(***************************************************************************)
NoEntries == <<>>

Result(err, data, entries, wire) ==
    [err |-> err, data |-> data, entries |-> entries, wire |-> wire]

Failure(err, wire) == Result(err, EmptyBytes, NoEntries, wire)

FileInfo(name, size, isDir) == [name |-> name, size |-> size, isDir |-> isDir]

(* One request sent to a backend: an HTTP request, an SQL statement or an  *)
(* S3 API call.                                                            *)
Wire(proto, op, target, auth, user, name, body) ==
    [proto |-> proto, op |-> op, target |-> target, auth |-> auth,
     user |-> user, name |-> name, body |-> body]

(* The pricelist the remote API serves, and the fabricated one. *)
RemotePricelist == Bytes(<<1, 2, 1>>)
MockPricelistData == Bytes(<<2, 2>>)

(***************************************************************************)
(* S3Storage (object storage adapter).                                     *)
(***************************************************************************)
getUserPath(username, path) ==
    LET cleanPath == TrimPrefix(path, "/")
    IN  IF cleanPath = "" THEN username \o "/" ELSE username \o "/" \o cleanPath

S3Storage_UploadFile(username, remotePath, content) ==
    Failure("", <<>>)

(* DownloadFile that serves whatever key the path names. *)
S3Storage_DownloadFile_AnyKey(username, remotePath) ==
    LET key  == getUserPath(username, remotePath)
        call == <<Wire("s3", "GetObject", key, "", username, "", EmptyBytes)>>
    IN  IF backend # "ok" \/ key \notin DOMAIN bucket
        THEN Failure("failed to download file " \o key, call)
        ELSE Result("", bucket[key], NoEntries, call)

S3Storage_DownloadFile(username, remotePath) ==
    IF remotePath # "Hinnat/salhydro_kaikki.zip"
    THEN Failure("file not found: " \o remotePath, <<>>)
    ELSE LET key  == getUserPath(username, remotePath)
             call == <<Wire("s3", "GetObject", key, "", username, "", EmptyBytes)>>
         IN  IF backend # "ok" \/ key \notin DOMAIN bucket
             THEN Failure("failed to download file " \o key, call)
             ELSE Result("", bucket[key], NoEntries, call)

S3Storage_ListFiles(username, remotePath) ==
    IF remotePath = "Hinnat" \/ remotePath = "Hinnat/"
    THEN LET key  == getUserPath(username, "Hinnat/salhydro_kaikki.zip")
             call == <<Wire("s3", "HeadObject", key, "", username, "", EmptyBytes)>>
         IN  IF backend # "ok"
             THEN Failure("failed to check file existence", call)
             ELSE IF key \notin DOMAIN bucket
             THEN Result("", EmptyBytes, NoEntries, call)
             ELSE Result("", EmptyBytes,
                         <<FileInfo("salhydro_kaikki.zip", bucket[key].len, FALSE)>>, call)
    ELSE IF remotePath = "" \/ remotePath = "/"
    THEN Result("", EmptyBytes, <<FileInfo("Hinnat", 0, TRUE)>>, <<>>)
    ELSE Result("", EmptyBytes, NoEntries, <<>>)

S3Storage_directoryKey(username, remotePath) ==
    LET key == getUserPath(username, remotePath)
    IN  IF ~HasSuffix(key, "/") THEN key \o "/" ELSE key

S3Storage_CreateDirectory(username, remotePath) ==
    LET key  == S3Storage_directoryKey(username, remotePath)
        call == <<Wire("s3", "PutObject", key, "", username, "", EmptyBytes)>>
    IN  IF backend # "ok"
        THEN Failure("failed to create directory " \o key, call)
        ELSE Failure("", call)

(* FileExists returns a boolean next to its error. *)
Exists(exists, err, wire) == [exists |-> exists, err |-> err, wire |-> wire]

S3Storage_FileExists(username, remotePath) ==
    IF remotePath = "Hinnat" THEN Exists(TRUE, "", <<>>)
    ELSE IF remotePath # "Hinnat/salhydro_kaikki.zip" THEN Exists(FALSE, "", <<>>)
    ELSE LET key  == getUserPath(username, remotePath)
             call == <<Wire("s3", "HeadObject", key, "", username, "", EmptyBytes)>>
         IN  IF backend # "ok"
             THEN Exists(FALSE, "failed to check file existence " \o key, call)
             ELSE Exists(key \in DOMAIN bucket, "", call)

S3Storage_GetFileInfo(username, remotePath) ==
    IF remotePath = "Hinnat"
    THEN Result("", EmptyBytes, <<FileInfo("Hinnat", 0, TRUE)>>, <<>>)
    ELSE IF remotePath # "Hinnat/salhydro_kaikki.zip"
    THEN Failure("file not found: " \o remotePath, <<>>)
    ELSE LET key  == getUserPath(username, remotePath)
             call == <<Wire("s3", "HeadObject", key, "", username, "", EmptyBytes)>>
         IN  IF backend # "ok" \/ key \notin DOMAIN bucket
             THEN Failure("failed to get file info for " \o key, call)
             ELSE Result("", EmptyBytes,
                         <<FileInfo("salhydro_kaikki.zip", bucket[key].len, FALSE)>>, call)

(***************************************************************************)
(* IncomingOrdersStorage on PostgreSQL (table incoming_files).             *)
(***************************************************************************)
Row(username, filename, content) ==
    [username |-> username, filename |-> filename,
     file_content |-> content, file_size |-> content.len]

(* A plain INSERT: the row is added next to the one it should replace. *)
Upsert_Insert(rows, row) == rows \cup {row}

(* INSERT ... ON CONFLICT (username, filename) DO UPDATE *)
Upsert(rows, row) ==
    {r \in rows : ~(r.username = row.username /\ r.filename = row.filename)} \cup {row}

PostgreSQL_StoreIncomingFile(username, filename, content) ==
    IF content.len > MaxFileSize
    THEN Failure("file size exceeds 100KB limit", <<>>)
    ELSE LET call == <<Wire("sql", "INSERT", "incoming_files", "", username, filename, content)>>
         IN  IF backend # "ok"
             THEN Failure("failed to store incoming file " \o filename, call)
             ELSE Failure("", call)
(* SELECT filename, file_size FROM incoming_files WHERE username = $1      *)
(* ORDER BY filename ASC.  Collation lists the file names that can be      *)
(* stored, in ascending order.                                             *)
Collation == <<"a.txt", "b.txt">>

RECURSIVE SelectOrdered(_, _, _)
SelectOrdered(rows, username, i) ==
    IF i > Len(Collation) THEN <<>>
    ELSE LET hit == {r \in rows : r.username = username /\ r.filename = Collation[i]}
         IN  (IF hit = {} THEN <<>>
              ELSE LET r == CHOOSE x \in hit : TRUE
                   IN  <<FileInfo(r.filename, r.file_size, FALSE)>>)
             \o SelectOrdered(rows, username, i + 1)

PostgreSQL_ListIncomingFiles(username) ==
    LET call == <<Wire("sql", "SELECT", "incoming_files", "", username, "", EmptyBytes)>>
    IN  IF backend # "ok"
        THEN Failure("failed to list incoming files", call)
        ELSE Result("", EmptyBytes, SelectOrdered(table, username, 1), call)

(***************************************************************************)
(* PricelistWebAPIStorage (remote API adapter behind the storage           *)
(* interface).  main passes "" as its API key.                             *)
(***************************************************************************)
PricelistWebAPIStorage_UploadFile(username, remotePath, content) ==
    Failure("upload not allowed for pricelist files", <<>>)

PricelistWebAPIStorage_DownloadFile(username, remotePath) ==
    IF remotePath # "/Hinnat/salhydro_kaikki.zip" /\ remotePath # "salhydro_kaikki.zip"
    THEN Failure("access denied: only salhydro_kaikki.zip is available", <<>>)
    ELSE LET call == <<Wire("http", "GET", "/api/pricelist/download", "Bearer ",
                            username, "", EmptyBytes)>>
         IN  IF backend = "unreachable"
             THEN Result("", MockPricelistData, NoEntries, call)
             ELSE IF backend # "ok"
             THEN Result("", MockPricelistData, NoEntries, call)
             ELSE Result("", RemotePricelist, NoEntries, call)

PricelistWebAPIStorage_ListFiles(username, remotePath) ==
    Result("", EmptyBytes, <<FileInfo("salhydro_kaikki.zip", PricelistSize, FALSE)>>, <<>>)

PricelistWebAPIStorage_CreateDirectory(username, remotePath) ==
    Failure("directory creation not allowed for pricelist files", <<>>)

PricelistWebAPIStorage_GetFileInfo(username, remotePath) ==
    IF remotePath # "salhydro_kaikki.zip"
    THEN Failure("file not found: " \o remotePath, <<>>)
    ELSE Result("", EmptyBytes, <<FileInfo("salhydro_kaikki.zip", PricelistSize, FALSE)>>, <<>>)

(***************************************************************************)
(* IncomingOrdersStorage over HTTP: one instance per user, holding the     *)
(* user's name and API key.                                                *)
(***************************************************************************)
sendOrderToAPI(s, filename, content) ==
    LET call == <<Wire("http", "POST", "/api/futur/order", s.apiKey,
                       s.username, filename, content)>>
    IN  IF backend = "unreachable"
        THEN Failure("HTTP request failed", call)
        ELSE IF backend # "ok"
        THEN Failure("API request failed: HTTP 500", call)
        ELSE Failure("", call)

IncomingOrdersStorage_StoreIncomingFile(s, filename, content) ==
    IF content.len > MaxFileSize
    THEN Failure("file size exceeds 100KB limit", <<>>)
    ELSE LET sent == sendOrderToAPI(s, filename, content)
         IN  IF sent.err # ""
             THEN Failure("failed to send order to API: " \o sent.err, sent.wire)
             ELSE sent

(***************************************************************************)
(* The package-level functions of the FUTUR API revision.                  *)
(***************************************************************************)
DownloadPricelist(username, apiKey, remotePath) ==
    IF remotePath # "/Hinnat/salhydro_kaikki.zip" /\ remotePath # "salhydro_kaikki.zip"
    THEN Failure("access denied: only salhydro_kaikki.zip is available", <<>>)
    ELSE LET call == <<Wire("http", "GET", "/api/futur/pricelist", apiKey,
                            username, "", EmptyBytes)>>
         IN  IF backend = "unreachable"
             THEN Failure("HTTP request failed", call)
             ELSE IF backend # "ok"
             THEN Failure("API request failed: HTTP 500", call)
             ELSE Result("", RemotePricelist, NoEntries, call)

(* SendOrderToAPI without its size check. *)
SendOrderToAPI_NoLimit(username, apiKey, filename, content) ==
    LET call == <<Wire("http", "POST", "/api/futur/order", apiKey,
                       username, filename, content)>>
    IN  IF backend = "unreachable"
        THEN Failure("HTTP request failed", call)
        ELSE IF backend # "ok"
        THEN Failure("API request failed: HTTP 500", call)
        ELSE Failure("", call)

SendOrderToAPI(username, apiKey, filename, content) ==
    IF content.len > MaxFileSize
    THEN Failure("file size exceeds 100KB limit", <<>>)
    ELSE LET call == <<Wire("http", "POST", "/api/futur/order", apiKey,
                            username, filename, content)>>
         IN  IF backend = "unreachable"
             THEN Failure("HTTP request failed", call)
             ELSE IF backend # "ok"
             THEN Failure("API request failed: HTTP 500", call)
             ELSE Failure("", call)

(***************************************************************************)
(* Authentication backends.  An authenticator returns its error ("" is     *)
(* nil), the user it found and the requests it sent.  world is what the    *)
(* backend does with the request: BackendStates.                           *)
(***************************************************************************)
NoUser == [Username |-> "", ApiKey |-> ""]

AuthResult(err, user, wire) == [err |-> err, user |-> user, wire |-> wire]

(* The credential of each account: the password the user was given, which  *)
(* the FUTUR API also takes as the user's API key.                         *)
ApiKeyOf(u) == "key-" \o u

(* bcrypt: the stored hash of a password, and the comparison with it. *)
GenerateFromPassword(password) == "$2a$" \o password

CompareHashAndPassword(hash, password) == hash = GenerateFromPassword(password)

(* Table users: two active users and one that was deactivated. *)
UsersTable ==
    {[username |-> "alice", password_hash |-> GenerateFromPassword(ApiKeyOf("alice")),
      is_active |-> TRUE],
     [username |-> "bob", password_hash |-> GenerateFromPassword(ApiKeyOf("bob")),
      is_active |-> TRUE],
     [username |-> "carol", password_hash |-> GenerateFromPassword(ApiKeyOf("carol")),
      is_active |-> FALSE]}

(* DB.AuthenticateUser *)
DB_AuthenticateUser(username, password, world) ==
    LET call == <<Wire("sql", "SELECT", "users", "", username, "", EmptyBytes)>>
        rows == {r \in UsersTable : r.username = username /\ r.is_active}
    IN  IF world # "ok"
        THEN AuthResult("database query error", NoUser, call)
        ELSE IF rows = {}
        THEN AuthResult("user not found", NoUser, call)
        ELSE LET user == CHOOSE r \in rows : TRUE
             IN  IF ~CompareHashAndPassword(user.password_hash, password)
                 THEN AuthResult("invalid password", NoUser, call)
                 ELSE AuthResult("", [Username |-> user.username, ApiKey |-> ""], call)

(* The accounts of the FUTUR API: POST /api/futur/login answers 200 with   *)
(* success=true for these pairs and 200 with success=false for any other.  *)
Accounts == {<<u, ApiKeyOf(u)>> : u \in {"alice", "bob"}}

(* WebAPIAuthenticator.AuthenticateUser *)
WebAPIAuthenticator_AuthenticateUser(username, password, world) ==
    IF username = "mika" /\ password = "taataataa11"
    THEN AuthResult("", [Username |-> username, ApiKey |-> password], <<>>)
    ELSE LET call == <<Wire("http", "POST", "/api/futur/login", "", username, "",
                            EmptyBytes)>>
         IN  IF world = "unreachable"
             THEN AuthResult("authentication failed: API unavailable", NoUser, call)
             ELSE IF world # "ok"
             THEN AuthResult("authentication failed: HTTP 500", NoUser, call)
             ELSE IF <<username, password>> \notin Accounts
             THEN AuthResult("authentication failed: ", NoUser, call)
             ELSE AuthResult("", [Username |-> username, ApiKey |-> password], call)

(***************************************************************************)
(* What a dispatcher operation returns: its error, the data or entries or  *)
(* writer it hands to the protocol layer, and the adapter calls it made.   *)
(***************************************************************************)
Call(fn, username, path, content, res) ==
    [fn |-> fn, username |-> username, path |-> path, content |-> content,
     err |-> res.err, wire |-> res.wire]

NoWriter == [kind |-> "none", username |-> "", apiKey |-> "", name |-> "", data |-> EmptyBytes]

Writer(kind, username, apiKey, name) ==
    [kind |-> kind, username |-> username, apiKey |-> apiKey, name |-> name,
     data |-> EmptyBytes]

Resp(err, data, entries, writer, calls) ==
    [err |-> err, data |-> data, entries |-> entries, writer |-> writer, calls |-> calls]

Deny(err) == Resp(err, EmptyBytes, NoEntries, NoWriter, <<>>)

ErrSSHFxOpUnsupported == "sftp: operation unsupported"

(* The adapter's result handed back as it is. *)
Forward(res, call) ==
    IF res.err # "" THEN Resp(res.err, EmptyBytes, NoEntries, NoWriter, <<call>>)
    ELSE Resp("", res.data, res.entries, NoWriter, <<call>>)

DirEntry(name) == FileInfo(name, 0, TRUE)
(***************************************************************************)
(* S3FileSystem: the dispatcher of the object-storage deployment.          *)
(* fs is the dispatcher (its username), r the request (Method, Filepath).  *)
(***************************************************************************)
S3FileSystem_Fileread(fs, r) ==
    IF ~isPathAllowed(r.Filepath)
    THEN Deny("access denied: path not allowed")
    ELSE IF isInIncomingDirectory(r.Filepath)
    THEN Deny("access denied: /in/ directory is write-only")
    ELSE LET res == S3Storage_DownloadFile(fs.username, r.Filepath)
         IN  Forward(res, Call("DownloadFile", fs.username, r.Filepath, EmptyBytes, res))

S3FileSystem_Filewrite(fs, r) ==
    IF ~isPathAllowed(r.Filepath) \/ ~S3FileSystem_isWriteAllowed(r.Filepath)
    THEN Deny("access denied: write not allowed to this path")
    ELSE IF isInIncomingDirectory(r.Filepath)
    THEN Resp("", EmptyBytes, NoEntries,
              Writer("incomingWriterAt", fs.username, fs.apiKey, Base(r.Filepath)), <<>>)
    ELSE Resp("", EmptyBytes, NoEntries,
              Writer("s3WriterAt", fs.username, fs.apiKey, r.Filepath), <<>>)

(* Filecmd with Remove handed to the storage's DeleteFile. *)
S3FileSystem_Filecmd_Deleting(fs, r) ==
    IF ~isPathAllowed(r.Filepath)
    THEN Deny("access denied: path not allowed")
    ELSE CASE r.Method = "Remove" ->
                LET res == Failure("", <<Wire("s3", "DeleteObject",
                                              getUserPath(fs.username, r.Filepath),
                                              "", fs.username, "", EmptyBytes)>>)
                IN  Forward(res, Call("DeleteFile", fs.username, r.Filepath, EmptyBytes, res))
           [] r.Method = "Mkdir" ->
                IF ~S3FileSystem_isWriteAllowed(r.Filepath)
                THEN Deny("access denied: directory creation not allowed in this location")
                ELSE LET res == S3Storage_CreateDirectory(fs.username, r.Filepath)
                     IN  Forward(res, Call("CreateDirectory", fs.username, r.Filepath,
                                           EmptyBytes, res))
           [] r.Method = "Rename" -> Deny("access denied: rename operations not allowed")
           [] r.Method = "Rmdir" -> Deny("access denied: directory removal not allowed")
           [] OTHER -> Deny(ErrSSHFxOpUnsupported)

S3FileSystem_Filecmd(fs, r) ==
    IF ~isPathAllowed(r.Filepath)
    THEN Deny("access denied: path not allowed")
    ELSE CASE r.Method = "Remove" -> Deny("access denied: delete operations not allowed")
           [] r.Method = "Mkdir" ->
                IF ~S3FileSystem_isWriteAllowed(r.Filepath)
                THEN Deny("access denied: directory creation not allowed in this location")
                ELSE LET res == S3Storage_CreateDirectory(fs.username, r.Filepath)
                     IN  Forward(res, Call("CreateDirectory", fs.username, r.Filepath,
                                           EmptyBytes, res))
           [] r.Method = "Rename" -> Deny("access denied: rename operations not allowed")
           [] r.Method = "Rmdir" -> Deny("access denied: directory removal not allowed")
           [] OTHER -> Deny(ErrSSHFxOpUnsupported)

(* listRootDirectory with its two entries in the other order. *)
S3FileSystem_listRootDirectory_Swapped ==
    Resp("", EmptyBytes, <<DirEntry("Hinnat"), DirEntry("in")>>, NoWriter, <<>>)

S3FileSystem_listRootDirectory ==
    Resp("", EmptyBytes, <<DirEntry("in"), DirEntry("Hinnat")>>, NoWriter, <<>>)

(* listIncomingDirectory that shows an empty directory when the query     *)
(* fails.                                                                  *)
S3FileSystem_listIncomingDirectory_Masking(fs) ==
    LET res  == PostgreSQL_ListIncomingFiles(fs.username)
        call == Call("ListIncomingFiles", fs.username, "", EmptyBytes, res)
    IN  Resp("", EmptyBytes, res.entries, NoWriter, <<call>>)

S3FileSystem_listIncomingDirectory(fs) ==
    LET res  == PostgreSQL_ListIncomingFiles(fs.username)
        call == Call("ListIncomingFiles", fs.username, "", EmptyBytes, res)
    IN  IF res.err # ""
        THEN Resp("failed to list incoming files: " \o res.err, EmptyBytes, NoEntries,
                  NoWriter, <<call>>)
        ELSE Resp("", EmptyBytes, res.entries, NoWriter, <<call>>)

S3FileSystem_Filelist(fs, r) ==
    IF ~isPathAllowed(r.Filepath)
    THEN Deny("access denied: path not allowed")
    ELSE IF r.Filepath = "/" \/ r.Filepath = ""
    THEN S3FileSystem_listRootDirectory
    ELSE IF r.Filepath = "/in"
    THEN S3FileSystem_listIncomingDirectory(fs)
    ELSE LET res == S3Storage_ListFiles(fs.username, r.Filepath)
         IN  Forward(res, Call("ListFiles", fs.username, r.Filepath, EmptyBytes, res))

(***************************************************************************)
(* APIFileSystem, first revision: adapters behind the PricelistStorage and *)
(* IncomingOrdersStorage interfaces.                                       *)
(***************************************************************************)
APIFileSystem_Stat(fs, r) ==
    LET path == Realpath(r.Filepath)
    IN  IF ~isPathAllowed(path)
        THEN Deny("access denied: path not allowed")
        ELSE IF path = "/"
        THEN Resp("", EmptyBytes, <<DirEntry("")>>, NoWriter, <<>>)
        ELSE IF path = "/in"
        THEN Resp("", EmptyBytes, <<DirEntry("in")>>, NoWriter, <<>>)
        ELSE IF path = "/Hinnat"
        THEN Resp("", EmptyBytes, <<DirEntry("Hinnat")>>, NoWriter, <<>>)
        ELSE IF HasPrefix(path, "/Hinnat/")
        THEN LET filename == TrimPrefix(path, "/Hinnat/")
                 res      == PricelistWebAPIStorage_GetFileInfo(fs.username, filename)
             IN  Forward(res, Call("GetFileInfo", fs.username, filename, EmptyBytes, res))
        ELSE IF isInIncomingDirectory(path)
        THEN Deny("access denied: /in/ directory files cannot be accessed")
        ELSE Deny("file not found: " \o path)

APIFileSystem_Fileread(fs, r) ==
    IF ~isPathAllowed(r.Filepath)
    THEN Deny("access denied: path not allowed")
    ELSE IF isInIncomingDirectory(r.Filepath)
    THEN Deny("access denied: /in/ directory is write-only")
    ELSE LET res == PricelistWebAPIStorage_DownloadFile(fs.username, r.Filepath)
         IN  Forward(res, Call("DownloadFile", fs.username, r.Filepath, EmptyBytes, res))

APIFileSystem_Filewrite(fs, r) ==
    IF ~isPathAllowed(r.Filepath) \/ ~APIFileSystem_isWriteAllowed(r.Filepath)
    THEN Deny("access denied: write not allowed to this path")
    ELSE IF isInIncomingDirectory(r.Filepath)
    THEN Resp("", EmptyBytes, NoEntries,
              Writer("incomingWriterAt", fs.username, fs.apiKey, Base(r.Filepath)), <<>>)
    ELSE Resp("", EmptyBytes, NoEntries,
              Writer("apiWriterAt", fs.username, fs.apiKey, r.Filepath), <<>>)

APIFileSystem_Filecmd(fs, r) ==
    IF ~isPathAllowed(r.Filepath)
    THEN Deny("access denied: path not allowed")
    ELSE CASE r.Method = "Remove" -> Deny("access denied: delete operations not allowed")
           [] r.Method = "Mkdir" ->
                IF ~APIFileSystem_isWriteAllowed(r.Filepath)
                THEN Deny("access denied: directory creation not allowed in this location")
                ELSE LET res == PricelistWebAPIStorage_CreateDirectory(fs.username, r.Filepath)
                     IN  Forward(res, Call("CreateDirectory", fs.username, r.Filepath,
                                           EmptyBytes, res))
           [] r.Method = "Rename" -> Deny("access denied: rename operations not allowed")
           [] r.Method = "Rmdir" -> Deny("access denied: directory removal not allowed")
           [] OTHER -> Deny(ErrSSHFxOpUnsupported)

APIFileSystem_listHinnatDirectory(fs) ==
    LET res == PricelistWebAPIStorage_ListFiles(fs.username, "/Hinnat")
    IN  Forward(res, Call("ListFiles", fs.username, "/Hinnat", EmptyBytes, res))

statHinnatDirectory == Resp("", EmptyBytes, <<DirEntry("Hinnat")>>, NoWriter, <<>>)

statInDirectory == Resp("", EmptyBytes, <<DirEntry("in")>>, NoWriter, <<>>)

APIFileSystem_listRootDirectory ==
    Resp("", EmptyBytes, <<DirEntry("in"), DirEntry("Hinnat")>>, NoWriter, <<>>)

APIFileSystem_listIncomingDirectory == Resp("", EmptyBytes, NoEntries, NoWriter, <<>>)

APIFileSystem_Filelist(fs, r) ==
    IF r.Method = "Readlink"
    THEN Deny(ErrSSHFxOpUnsupported)
    ELSE IF ~isPathAllowed(r.Filepath)
    THEN Deny("access denied: path not allowed")
    ELSE IF r.Filepath = "/" \/ r.Filepath = ""
    THEN APIFileSystem_listRootDirectory
    ELSE IF r.Filepath = "/in"
    THEN (IF r.Method = "Stat" THEN statInDirectory ELSE APIFileSystem_listIncomingDirectory)
    ELSE IF r.Filepath = "/Hinnat"
    THEN (IF r.Method = "Stat" THEN statHinnatDirectory
          ELSE APIFileSystem_listHinnatDirectory(fs))
    ELSE LET res == PricelistWebAPIStorage_ListFiles(fs.username, r.Filepath)
         IN  Forward(res, Call("ListFiles", fs.username, r.Filepath, EmptyBytes, res))
(***************************************************************************)
(* APIFileSystem, second revision: bound to the user's name and API key,   *)
(* calling the FUTUR API functions directly.                               *)
(***************************************************************************)
(* Fileread that tries the download a second time when it fails. *)
APIFileSystemV2_Fileread_Retrying(fs, r) ==
    IF ~isPathAllowed(r.Filepath)
    THEN Deny("access denied: path not allowed")
    ELSE IF isInIncomingDirectory(r.Filepath)
    THEN Deny("access denied: /in/ directory is write-only")
    ELSE LET res  == DownloadPricelist(fs.username, fs.apiKey, r.Filepath)
             call == Call("DownloadPricelist", fs.username, r.Filepath, EmptyBytes, res)
         IN  IF res.err # ""
             THEN Resp(res.err, EmptyBytes, NoEntries, NoWriter, <<call, call>>)
             ELSE Forward(res, call)

APIFileSystemV2_Fileread(fs, r) ==
    IF ~isPathAllowed(r.Filepath)
    THEN Deny("access denied: path not allowed")
    ELSE IF isInIncomingDirectory(r.Filepath)
    THEN Deny("access denied: /in/ directory is write-only")
    ELSE LET res == DownloadPricelist(fs.username, fs.apiKey, r.Filepath)
         IN  Forward(res, Call("DownloadPricelist", fs.username, r.Filepath, EmptyBytes, res))

APIFileSystemV2_Filewrite(fs, r) ==
    IF ~isPathAllowed(r.Filepath) \/ ~APIFileSystem_isWriteAllowed(r.Filepath)
    THEN Deny("access denied: write not allowed to this path")
    ELSE IF isInIncomingDirectory(r.Filepath)
    THEN Resp("", EmptyBytes, NoEntries,
              Writer("incomingWriterAt", fs.username, fs.apiKey, Base(r.Filepath)), <<>>)
    ELSE Deny("access denied: /Hinnat directory is read-only")

(* Filecmd answering an unknown method with a denial. *)
APIFileSystemV2_Filecmd_Denying(fs, r) ==
    IF ~isPathAllowed(r.Filepath)
    THEN Deny("access denied: path not allowed")
    ELSE CASE r.Method = "Remove" -> Deny("access denied: delete operations not allowed")
           [] r.Method = "Mkdir" -> Deny("access denied: mkdir operations not allowed")
           [] r.Method = "Rename" -> Deny("access denied: rename operations not allowed")
           [] r.Method = "Rmdir" -> Deny("access denied: directory removal not allowed")
           [] OTHER -> Deny("access denied: operation not allowed")

APIFileSystemV2_Filecmd(fs, r) ==
    IF ~isPathAllowed(r.Filepath)
    THEN Deny("access denied: path not allowed")
    ELSE CASE r.Method = "Remove" -> Deny("access denied: delete operations not allowed")
           [] r.Method = "Mkdir" -> Deny("access denied: mkdir operations not allowed")
           [] r.Method = "Rename" -> Deny("access denied: rename operations not allowed")
           [] r.Method = "Rmdir" -> Deny("access denied: directory removal not allowed")
           [] OTHER -> Deny(ErrSSHFxOpUnsupported)

APIFileSystemV2_listHinnatDirectory ==
    Resp("", EmptyBytes, <<FileInfo("salhydro_kaikki.zip", PricelistSize, FALSE)>>,
         NoWriter, <<>>)

listInDirectory == Resp("", EmptyBytes, NoEntries, NoWriter, <<>>)

APIFileSystemV2_Filelist(fs, r) ==
    IF r.Method = "Readlink"
    THEN Deny(ErrSSHFxOpUnsupported)
    ELSE IF ~isPathAllowed(r.Filepath)
    THEN Deny("access denied: path not allowed")
    ELSE IF r.Filepath = "/" \/ r.Filepath = ""
    THEN APIFileSystem_listRootDirectory
    ELSE IF r.Filepath = "/in"
    THEN (IF r.Method = "Stat" THEN statInDirectory ELSE listInDirectory)
    ELSE IF r.Filepath = "/Hinnat"
    THEN (IF r.Method = "Stat" THEN statHinnatDirectory
          ELSE APIFileSystemV2_listHinnatDirectory)
    ELSE IF r.Filepath = "/Hinnat/salhydro_kaikki.zip"
    THEN Resp("", EmptyBytes, <<FileInfo("salhydro_kaikki.zip", PricelistSize, FALSE)>>,
              NoWriter, <<>>)
    ELSE Resp("", EmptyBytes, NoEntries, NoWriter, <<>>)

(***************************************************************************)
(* Write handles.  WriteAt is the same code in s3WriterAt, apiWriterAt and *)
(* the three incomingWriterAt types.                                       *)
(***************************************************************************)
(* WriteAt that ignores the offset and appends. *)
WriteAt_Append(data, p, off) ==
    CopyAt(Grow(data, data.len + Len(p)), data.len, p)

WriteAt(data, p, off) ==
    LET needed == off + Len(p)
        grown  == IF needed > data.len THEN Grow(data, needed) ELSE data
    IN  CopyAt(grown, off, p)

NoFlush == [err |-> "", calls |-> <<>>]

Flush(res, call) == [err |-> res.err, calls |-> <<call>>]

(* incomingWriterAt.Close of the object-storage deployment *)
S3_incomingWriterAt_Close(w) ==
    IF w.data.len > 0
    THEN LET res == PostgreSQL_StoreIncomingFile(w.username, w.name, w.data)
         IN  Flush(res, Call("StoreIncomingFile", w.username, w.name, w.data, res))
    ELSE NoFlush

(* Close that uploads the buffer whatever its length. *)
s3WriterAt_Close_Always(w) ==
    LET res == S3Storage_UploadFile(w.username, w.name, w.data)
    IN  Flush(res, Call("UploadFile", w.username, w.name, w.data, res))

s3WriterAt_Close(w) ==
    IF w.data.len > 0
    THEN LET res == S3Storage_UploadFile(w.username, w.name, w.data)
         IN  Flush(res, Call("UploadFile", w.username, w.name, w.data, res))
    ELSE NoFlush

(* incomingWriterAt.Close of the first APIFileSystem revision *)
API_incomingWriterAt_Close(w) ==
    IF w.data.len > 0
    THEN LET s   == [username |-> w.username, apiKey |-> w.apiKey]
             res == IncomingOrdersStorage_StoreIncomingFile(s, w.name, w.data)
         IN  Flush(res, Call("StoreIncomingFile", w.username, w.name, w.data, res))
    ELSE NoFlush

apiWriterAt_Close(w) ==
    IF w.data.len > 0
    THEN LET res == PricelistWebAPIStorage_UploadFile(w.username, w.name, w.data)
         IN  Flush(res, Call("UploadFile", w.username, w.name, w.data, res))
    ELSE NoFlush

(* incomingWriterAt.Close of the second APIFileSystem revision *)
V2_incomingWriterAt_Close(w) ==
    IF w.data.len > 0
    THEN LET res == SendOrderToAPI(w.username, w.apiKey, w.name, w.data)
         IN  Flush(res, Call("SendOrderToAPI", w.username, w.name, w.data, res))
    ELSE NoFlush

(* The Close the protocol layer reaches through io.Closer. *)
WriterClose(w) ==
    CASE w.kind = "s3WriterAt" -> s3WriterAt_Close(w)
      [] w.kind = "apiWriterAt" -> apiWriterAt_Close(w)
      [] w.kind = "incomingWriterAt" /\ variant = "s3" -> S3_incomingWriterAt_Close(w)
      [] w.kind = "incomingWriterAt" /\ variant = "webapi" -> API_incomingWriterAt_Close(w)
      [] OTHER -> V2_incomingWriterAt_Close(w)

(***************************************************************************)
(* The handlers the protocol layer calls, by deployment.                   *)
(***************************************************************************)
DoFileread(fs, r) ==
    CASE variant = "s3" -> S3FileSystem_Fileread(fs, r)
      [] variant = "webapi" -> APIFileSystem_Fileread(fs, r)
      [] OTHER -> APIFileSystemV2_Fileread(fs, r)

DoFilewrite(fs, r) ==
    CASE variant = "s3" -> S3FileSystem_Filewrite(fs, r)
      [] variant = "webapi" -> APIFileSystem_Filewrite(fs, r)
      [] OTHER -> APIFileSystemV2_Filewrite(fs, r)

DoFilecmd(fs, r) ==
    CASE variant = "s3" -> S3FileSystem_Filecmd(fs, r)
      [] variant = "webapi" -> APIFileSystem_Filecmd(fs, r)
      [] OTHER -> APIFileSystemV2_Filecmd(fs, r)

DoFilelist(fs, r) ==
    CASE variant = "s3" -> S3FileSystem_Filelist(fs, r)
      [] variant = "webapi" -> APIFileSystem_Filelist(fs, r)
      [] OTHER -> APIFileSystemV2_Filelist(fs, r)
(***************************************************************************)
(* What the backends do with the requests that reach them.                 *)
(***************************************************************************)
RECURSIVE WireOf(_)
WireOf(calls) ==
    IF calls = <<>> THEN <<>> ELSE Head(calls).wire \o WireOf(Tail(calls))

RECURSIVE ExecSQL(_, _)
ExecSQL(rows, wire) ==
    IF wire = <<>> THEN rows
    ELSE LET q == Head(wire)
         IN  ExecSQL(IF q.proto = "sql" /\ q.op = "INSERT" /\ backend = "ok"
                     THEN Upsert(rows, Row(q.user, q.name, q.body))
                     ELSE rows,
                     Tail(wire))

RECURSIVE ExecS3(_, _)
ExecS3(objects, wire) ==
    IF wire = <<>> THEN objects
    ELSE LET q == Head(wire)
         IN  ExecS3(IF q.proto = "s3" /\ q.op = "PutObject" /\ backend = "ok"
                    THEN (q.target :> q.body) @@ objects
                    ELSE objects,
                    Tail(wire))

(***************************************************************************)
(* The inputs of the model.                                                *)
(***************************************************************************)
Paths ==
    {"/", "", ".", "/in", "/Hinnat", "/in/a.txt", "/in/sub/a.txt", "in/a.txt",
     "/Hinnat/salhydro_kaikki.zip", "/Hinnat/x.csv",
     "/inbox", "/Hinnat2", "/tmp", "//tmp"}

(* The paths a client uploads to. *)
WritePaths == {"/in/a.txt", "/in/sub/a.txt", "in/a.txt", "/Hinnat/x.csv", "/"}

(* The directories a client lists between uploads. *)
ListPaths == {"/", "/in"}

(* The commands a client sends between uploads: one the policy refuses and *)
(* one the dispatcher does not implement.                                  *)
UploadCmdMethods == {"Remove", "Setstat"}

CmdMethods == {"Remove", "Rename", "Rmdir", "Mkdir", "Setstat", "Symlink", "Link"}

ListMethods == {"List", "Stat", "Readlink"}

(* The WriteAt calls a client makes: two adjoining segments (one with a    *)
(* zero byte), and two overlapping segments that end at the size limit and *)
(* one byte past it.                                                       *)
WriteArgs ==
    {[off |-> 0, p |-> <<1, 2>>],
     [off |-> 2, p |-> <<0, 1>>],
     [off |-> MaxFileSize - 2, p |-> <<1, 2>>],
     [off |-> MaxFileSize - 1, p |-> <<1, 1>>]}

(* The names and passwords clients log in with. *)
Passwords == {ApiKeyOf(u) : u \in Users}

(***************************************************************************)
(* State.                                                                  *)
(***************************************************************************)
(* What an authentication attempt was: the credentials presented, what the *)
(* authentication backend did with the request, and the authenticator's    *)
(* result.                                                                 *)
NoLogin == [username |-> "", password |-> "", world |-> "", res |-> AuthResult("", NoUser, <<>>)]

Login(username, password, world, res) ==
    [username |-> username, password |-> password, world |-> world, res |-> res]

(* n is the byte count a WriteAt call returns next to its error. *)
NoRequest ==
    [conn |-> "", op |-> "none", Method |-> "", Filepath |-> "", handle |-> 0,
     resp |-> Deny(""), login |-> NoLogin, n |-> 0]

Answer(c, op, method, path, h, resp) ==
    [conn |-> c, op |-> op, Method |-> method, Filepath |-> path, handle |-> h,
     resp |-> resp, login |-> NoLogin, n |-> 0]

(* The bucket holds the pricelist of alice and none for bob. *)
InitialBucket == ("alice/Hinnat/salhydro_kaikki.zip" :> RemotePricelist)

(* The rows incoming_files holds when the service starts: none, or orders  *)
(* stored by earlier sessions.                                             *)
InitialTables ==
    {{},
     {Row("alice", "b.txt", Bytes(<<1>>)), Row("bob", "a.txt", Bytes(<<2, 1>>)),
      Row("bob", "b.txt", Bytes(<<0>>))}}

Init ==
    /\ variant \in Variants
    /\ backend \in BackendStates
    /\ session = [c \in Sessions |-> [state |-> "new", username |-> "", apiKey |-> ""]]
    /\ handles = <<>>
    /\ table \in (IF variant = "s3" THEN InitialTables ELSE {{}})
    /\ bucket = InitialBucket
    /\ reply = NoRequest

Open(c) == session[c].state = "open"

(* Handlers run one at a time: no reply is on its way to the client. *)
Idle == reply.op = "none"

(* One dispatcher serving every session with the identity of the first. *)
Dispatcher_Shared(c) ==
    [username |-> session["c1"].username, apiKey |-> session["c1"].apiKey]

Dispatcher(c) == [username |-> session[c].username, apiKey |-> session[c].apiKey]

RECURSIVE TotalWrites(_)
TotalWrites(hs) ==
    IF hs = <<>> THEN 0 ELSE Len(Head(hs).writes) + TotalWrites(Tail(hs))

(* The authenticator of the deployment. *)
AuthenticateUser(username, password, world) ==
    IF variant = "s3"
    THEN DB_AuthenticateUser(username, password, world)
    ELSE WebAPIAuthenticator_AuthenticateUser(username, password, world)

(* passwordCallback: the client of connection c presents a password during *)
(* the SSH handshake.  When the authenticator accepts it the handshake     *)
(* completes with the user's name (and, in the API deployments, the        *)
(* password as API key) in the permissions of the connection; when it does *)
(* not, the callback answers "authentication failed" and the client may    *)
(* try again.                                                              *)
passwordCallback(c, username, password, world) ==
    /\ session[c].state = "new"
    /\ Idle
    /\ LET res == AuthenticateUser(username, password, world)
           err == IF res.err # "" THEN "authentication failed" ELSE ""
       IN  /\ reply' = [Answer(c, "passwordCallback", "", "", 0, Deny(err))
                           EXCEPT !.login = Login(username, password, world, res)]
           /\ session' = IF res.err # "" THEN session
                         ELSE [session EXCEPT ![c] =
                                   [state |-> "authenticated",
                                    username |-> res.user.Username,
                                    apiKey |-> res.user.ApiKey]]
    /\ UNCHANGED <<variant, backend, handles, table, bucket>>

(* handleConnection when ssh.NewServerConn returns an error: the client    *)
(* gave up or ran out of attempts without an accepted password.  The       *)
(* connection is closed.                                                   *)
handleConnection(c) ==
    /\ session[c].state = "new"
    /\ Idle
    /\ session' = [session EXCEPT ![c].state = "rejected"]
    /\ UNCHANGED <<variant, backend, handles, table, bucket, reply>>

(* handleSFTP with no handshake before it. *)
handleSFTP_Unauthenticated(c, username) ==
    /\ session[c].state \in {"new", "authenticated"}
    /\ Idle
    /\ session' = [session EXCEPT ![c].state = "open", ![c].username = username]
    /\ UNCHANGED <<variant, backend, handles, table, bucket, reply>>

(* handleSFTP: the handshake is done and the client asks for the sftp      *)
(* subsystem; a dispatcher bound to the user of the permissions is created *)
(* and the session starts serving requests.                                *)
handleSFTP(c, username) ==
    /\ session[c].state = "authenticated"
    /\ session[c].username = username
    /\ Idle
    /\ session' = [session EXCEPT ![c].state = "open"]
    /\ UNCHANGED <<variant, backend, handles, table, bucket, reply>>

Fileread(c, path) ==
    /\ Open(c)
    /\ Idle
    /\ reply' = Answer(c, "Fileread", "Get", path, 0,
                      DoFileread(Dispatcher(c), [Method |-> "Get", Filepath |-> path]))
    /\ UNCHANGED <<variant, backend, session, handles, table, bucket>>

Filewrite(c, path) ==
    /\ Open(c)
    /\ Idle
    /\ LET resp == DoFilewrite(Dispatcher(c), [Method |-> "Put", Filepath |-> path])
       IN  IF resp.err # ""
           THEN /\ reply' = Answer(c, "Filewrite", "Put", path, 0, resp)
                /\ UNCHANGED handles
           ELSE /\ Len(handles) < MaxHandles
                /\ handles' = Append(handles,
                                  [conn |-> c, path |-> path, w |-> resp.writer,
                                   state |-> "open", writes |-> <<>>,
                                   tasks |-> <<>>, err |-> "", calls |-> <<>>])
                /\ reply' = Answer(c, "Filewrite", "Put", path, Len(handles) + 1, resp)
    /\ UNCHANGED <<variant, backend, session, table, bucket>>

Stat(c, path) ==
    /\ Open(c)
    /\ Idle
    /\ variant = "webapi"
    /\ reply' = Answer(c, "Stat", "Stat", path, 0,
                      APIFileSystem_Stat(Dispatcher(c), [Method |-> "Stat", Filepath |-> path]))
    /\ UNCHANGED <<variant, backend, session, handles, table, bucket>>

(* Filecmd that gives the session up when it refuses a command. *)
Filecmd_Closing(c, method, path) ==
    /\ Open(c)
    /\ Idle
    /\ LET resp == DoFilecmd(Dispatcher(c), [Method |-> method, Filepath |-> path])
       IN  /\ reply' = Answer(c, "Filecmd", method, path, 0, resp)
           /\ bucket' = ExecS3(bucket, WireOf(resp.calls))
           /\ Cardinality(DOMAIN bucket') <= Cardinality(DOMAIN InitialBucket) + MaxDirs
           /\ session' = IF resp.err # "" THEN [session EXCEPT ![c].state = "closed"]
                         ELSE session
    /\ UNCHANGED <<variant, backend, handles, table>>

Filecmd(c, method, path) ==
    /\ Open(c)
    /\ Idle
    /\ LET resp == DoFilecmd(Dispatcher(c), [Method |-> method, Filepath |-> path])
       IN  /\ reply' = Answer(c, "Filecmd", method, path, 0, resp)
           /\ bucket' = ExecS3(bucket, WireOf(resp.calls))
           /\ Cardinality(DOMAIN bucket') <= Cardinality(DOMAIN InitialBucket) + MaxDirs
    /\ UNCHANGED <<variant, backend, session, handles, table>>

Filelist(c, method, path) ==
    /\ Open(c)
    /\ Idle
    /\ reply' = Answer(c, "Filelist", method, path, 0,
                      DoFilelist(Dispatcher(c), [Method |-> method, Filepath |-> path]))
    /\ UNCHANGED <<variant, backend, session, handles, table, bucket>>

(* WriteAt that refuses to grow the buffer past the size limit. *)
HandleWriteAt_Limited(h, arg) ==
    /\ h \in 1..Len(handles)
    /\ handles[h].state = "open"
    /\ Open(handles[h].conn)
    /\ Idle
    /\ TotalWrites(handles) < MaxWrites
    /\ LET fits == arg.off + Len(arg.p) <= MaxFileSize
       IN  /\ handles' = [handles EXCEPT
                              ![h].w.data = IF fits THEN WriteAt(@, arg.p, arg.off) ELSE @,
                              ![h].writes = Append(@, arg)]
           /\ reply' = [Answer(handles[h].conn, "WriteAt", "", handles[h].path, h,
                               Resp(IF fits THEN "" ELSE "file size exceeds 100KB limit",
                                    EmptyBytes, NoEntries, NoWriter, <<>>))
                           EXCEPT !.n = IF fits THEN Len(arg.p) ELSE 0]
    /\ UNCHANGED <<variant, backend, session, table, bucket>>

(* A write packet for an open handle. *)
HandleWriteAt(h, arg) ==
    /\ h \in 1..Len(handles)
    /\ handles[h].state = "open"
    /\ Open(handles[h].conn)
    /\ Idle
    /\ TotalWrites(handles) < MaxWrites
    /\ handles' = [handles EXCEPT
                       ![h].w.data = WriteAt(@, arg.p, arg.off),
                       ![h].writes = Append(@, arg)]
    /\ reply' = [Answer(handles[h].conn, "WriteAt", "", handles[h].path, h,
                        Resp("", EmptyBytes, NoEntries, NoWriter, <<>>))
                    EXCEPT !.n = Len(arg.p)]
    /\ UNCHANGED <<variant, backend, session, table, bucket>>

(* Write packets of one file processed in parallel: each WriteAt call is a *)
(* task of its own that runs the three statements of WriteAt one at a      *)
(* time, with no lock on the writer.                                       *)
(*   grow:    needed := off + len(p); if needed > len(w.data), newData is  *)
(*            made and the bytes of w.data are copied into it              *)
(*   replace: w.data = newData                                             *)
(*   copy:    copy(w.data[off:], p); return len(p), nil                    *)
Task(arg, pc, newData) == [arg |-> arg, pc |-> pc, newData |-> newData]

RemoveAt(seq, t) == SubSeq(seq, 1, t - 1) \o SubSeq(seq, t + 1, Len(seq))

WriteAt_Grow(h, arg) ==
    /\ h \in 1..Len(handles)
    /\ handles[h].state = "open"
    /\ Open(handles[h].conn)
    /\ TotalWrites(handles) < MaxWrites
    /\ LET data   == handles[h].w.data
           needed == arg.off + Len(arg.p)
           task   == IF needed > data.len
                     THEN Task(arg, "replace", Grow(data, needed))
                     ELSE Task(arg, "copy", EmptyBytes)
       IN  handles' = [handles EXCEPT ![h].tasks = Append(@, task),
                                      ![h].writes = Append(@, arg)]
    /\ UNCHANGED <<variant, backend, session, table, bucket, reply>>

WriteAt_Replace(h, t) ==
    /\ h \in 1..Len(handles)
    /\ handles[h].state = "open"
    /\ t \in 1..Len(handles[h].tasks)
    /\ handles[h].tasks[t].pc = "replace"
    /\ handles' = [handles EXCEPT ![h].w.data = handles[h].tasks[t].newData,
                                  ![h].tasks[t].pc = "copy",
                                  ![h].tasks[t].newData = EmptyBytes]
    /\ UNCHANGED <<variant, backend, session, table, bucket, reply>>

(* w.data[off:] panics when off is beyond the length w.data has by now. *)
WriteAt_Copy(h, t) ==
    /\ h \in 1..Len(handles)
    /\ handles[h].state = "open"
    /\ t \in 1..Len(handles[h].tasks)
    /\ handles[h].tasks[t].pc = "copy"
    /\ LET arg == handles[h].tasks[t].arg
       IN  IF arg.off > handles[h].w.data.len
           THEN handles' = [handles EXCEPT ![h].state = "panicked",
                                           ![h].err = "slice bounds out of range",
                                           ![h].tasks = <<>>]
           ELSE handles' = [handles EXCEPT
                                ![h].w.data = CopyAt(@, arg.off, arg.p),
                                ![h].tasks = RemoveAt(@, t)]
    /\ UNCHANGED <<variant, backend, session, table, bucket, reply>>

(* The client closes the file: the protocol layer calls Close once. *)
HandleClose(h) ==
    /\ h \in 1..Len(handles)
    /\ handles[h].state = "open"
    /\ handles[h].tasks = <<>>
    /\ Open(handles[h].conn)
    /\ Idle
    /\ LET done == WriterClose(handles[h].w)
       IN  /\ handles' = [handles EXCEPT ![h].state = "closed",
                                         ![h].err = done.err,
                                         ![h].calls = done.calls]
           /\ table' = ExecSQL(table, WireOf(done.calls))
           /\ reply' = Answer(handles[h].conn, "Close", "", handles[h].path, h,
                             Resp(done.err, EmptyBytes, NoEntries, NoWriter, done.calls))
    /\ UNCHANGED <<variant, backend, session, bucket>>

(* The protocol layer sends the handler's result to the client. *)
Respond ==
    /\ ~Idle
    /\ reply' = NoRequest
    /\ UNCHANGED <<variant, backend, session, handles, table, bucket>>

(* What Serve does with the handles still open when the transport goes     *)
(* away is the protocol library's business: it either drops them or calls  *)
(* Close on each.  Teardowns lists both.                                   *)
Teardowns == {"drop", "close"}

RECURSIVE CloseOpen(_, _)
CloseOpen(hs, c) ==
    IF hs = <<>> THEN <<>>
    ELSE LET h    == Head(hs)
             done == WriterClose(h.w)
         IN  <<IF h.conn = c /\ h.state = "open"
               THEN [h EXCEPT !.state = "closed", !.err = done.err, !.calls = done.calls]
               ELSE h>> \o CloseOpen(Tail(hs), c)

RECURSIVE TeardownCalls(_, _)
TeardownCalls(hs, c) ==
    IF hs = <<>> THEN <<>>
    ELSE (IF Head(hs).conn = c /\ Head(hs).state = "open"
          THEN WriterClose(Head(hs).w).calls ELSE <<>>) \o TeardownCalls(Tail(hs), c)

(* The transport goes away; Serve returns and handleSFTP ends. *)
Disconnect(c, teardown) ==
    /\ Open(c)
    /\ session' = [session EXCEPT ![c].state = "closed"]
    /\ reply' = NoRequest
    /\ IF teardown = "close"
       THEN /\ handles' = CloseOpen(handles, c)
            /\ table' = ExecSQL(table, WireOf(TeardownCalls(handles, c)))
       ELSE UNCHANGED <<handles, table>>
    /\ UNCHANGED <<variant, backend, bucket>>

(* The session under upload traffic: files are opened, written, closed and  *)
(* read back.                                                              *)
Next ==
    \/ \E c \in Conns, u \in Users, password \in Passwords, world \in BackendStates :
           passwordCallback(c, u, password, world)
    \/ \E c \in Conns : handleConnection(c)
    \/ \E c \in Conns, u \in Users : handleSFTP(c, u)
    \/ \E c \in Conns, path \in WritePaths : Filewrite(c, path)
    \/ \E h \in 1..MaxHandles, arg \in WriteArgs : HandleWriteAt(h, arg)
    \/ \E h \in 1..MaxHandles : HandleClose(h)
    \/ \E c \in Conns, h \in 1..MaxHandles :
           h <= Len(handles) /\ Fileread(c, handles[h].path)
    \/ \E c \in Conns, path \in ListPaths : Filelist(c, "List", path)
    \/ Respond
    \/ \E c \in Conns, teardown \in Teardowns : Disconnect(c, teardown)

Spec == Init /\ [][Next]_vars

(* The session under request traffic: every handler with every method on   *)
(* every path.                                                             *)
NextDispatch ==
    \/ \E c \in Conns, u \in Users, password \in Passwords, world \in BackendStates :
           passwordCallback(c, u, password, world)
    \/ \E c \in Conns : handleConnection(c)
    \/ \E c \in Conns, u \in Users : handleSFTP(c, u)
    \/ \E c \in Conns, path \in Paths : Fileread(c, path)
    \/ \E c \in Conns, path \in Paths : Filewrite(c, path)
    \/ \E c \in Conns, path \in Paths : Stat(c, path)
    \/ \E c \in Conns, method \in CmdMethods, path \in Paths : Filecmd(c, method, path)
    \/ \E c \in Conns, method \in ListMethods, path \in Paths : Filelist(c, method, path)
    \/ Respond
    \/ \E c \in Conns, teardown \in Teardowns : Disconnect(c, teardown)

SpecDispatch == Init /\ [][NextDispatch]_vars

(* Two sessions at once: each uploads, downloads, lists and creates        *)
(* directories while the other does.                                       *)
SessionWritePaths == {"/in/a.txt", "/Hinnat/x.csv"}

SessionListPaths == {"/in", "/Hinnat"}

SessionWriteArgs == {[off |-> 0, p |-> <<1, 2>>]}

NextSessions ==
    \/ \E c \in Sessions, u \in Users, password \in Passwords, world \in BackendStates :
           passwordCallback(c, u, password, world)
    \/ \E c \in Sessions : handleConnection(c)
    \/ \E c \in Sessions, u \in Users : handleSFTP(c, u)
    \/ \E c \in Sessions : Fileread(c, "/Hinnat/salhydro_kaikki.zip")
    \/ \E c \in Sessions, path \in SessionWritePaths : Filewrite(c, path)
    \/ \E h \in 1..MaxHandles, arg \in SessionWriteArgs : HandleWriteAt(h, arg)
    \/ \E h \in 1..MaxHandles : HandleClose(h)
    \/ \E c \in Sessions, path \in SessionListPaths : Filelist(c, "List", path)
    \/ \E c \in Sessions : Filecmd(c, "Mkdir", "/Hinnat/x.csv")
    \/ Respond
    \/ \E c \in Sessions, teardown \in Teardowns : Disconnect(c, teardown)

SpecSessions == Init /\ [][NextSessions]_vars

(* The handshake under every kind of credentials: the accounts, a          *)
(* deactivated user, the built-in test user and wrong passwords, followed  *)
(* by one download and one upload.                                         *)
LoginNames == Users \cup {"carol", "mika"}

LoginPasswords == {ApiKeyOf(u) : u \in Users \cup {"carol"}} \cup {"taataataa11"}

NextAuth ==
    \/ \E c \in Conns, u \in LoginNames, password \in LoginPasswords,
          world \in BackendStates :
           passwordCallback(c, u, password, world)
    \/ \E c \in Conns : handleConnection(c)
    \/ \E c \in Conns, u \in LoginNames : handleSFTP(c, u)
    \/ \E c \in Conns : Fileread(c, "/Hinnat/salhydro_kaikki.zip")
    \/ \E c \in Conns : Filewrite(c, "/in/a.txt")
    \/ \E h \in 1..MaxHandles, arg \in SessionWriteArgs : HandleWriteAt(h, arg)
    \/ \E h \in 1..MaxHandles : HandleClose(h)
    \/ Respond
    \/ \E c \in Conns, teardown \in Teardowns : Disconnect(c, teardown)

SpecAuth == Init /\ [][NextAuth]_vars

(* Uploads around the size limit: a segment at the start, one that ends    *)
(* exactly at the limit, and one byte at an offset beyond it, into an      *)
(* order file and into a pricelist file; between them the client sends     *)
(* commands that are refused and lists the root.                           *)
LimitWriteArgs ==
    {[off |-> 0, p |-> <<1, 2>>],
     [off |-> MaxFileSize - 2, p |-> <<0, 1>>],
     [off |-> MaxFileSize + 1, p |-> <<2>>]}

NextLimit ==
    \/ \E c \in Conns, u \in Users, password \in Passwords, world \in BackendStates :
           passwordCallback(c, u, password, world)
    \/ \E c \in Conns : handleConnection(c)
    \/ \E c \in Conns, u \in Users : handleSFTP(c, u)
    \/ \E c \in Conns, path \in SessionWritePaths : Filewrite(c, path)
    \/ \E h \in 1..MaxHandles, arg \in LimitWriteArgs : HandleWriteAt(h, arg)
    \/ \E h \in 1..MaxHandles : HandleClose(h)
    \/ \E c \in Conns, method \in UploadCmdMethods : Filecmd(c, method, "/in")
    \/ \E c \in Conns : Filelist(c, "List", "/")
    \/ Respond
    \/ \E c \in Conns, teardown \in Teardowns : Disconnect(c, teardown)

SpecLimit == Init /\ [][NextLimit]_vars

(* One upload whose write packets are processed in parallel. *)
ParallelWriteArgs ==
    {[off |-> 0, p |-> <<1, 2>>], [off |-> 2, p |-> <<0, 1>>], [off |-> 5, p |-> <<2>>]}

NextParallel ==
    \/ \E c \in Conns, u \in Users, password \in Passwords, world \in BackendStates :
           passwordCallback(c, u, password, world)
    \/ \E c \in Conns : handleConnection(c)
    \/ \E c \in Conns, u \in Users : handleSFTP(c, u)
    \/ \E c \in Conns : Filewrite(c, "/in/a.txt")
    \/ \E h \in 1..MaxHandles, arg \in ParallelWriteArgs : WriteAt_Grow(h, arg)
    \/ \E h \in 1..MaxHandles, t \in 1..MaxWrites : WriteAt_Replace(h, t)
    \/ \E h \in 1..MaxHandles, t \in 1..MaxWrites : WriteAt_Copy(h, t)
    \/ \E h \in 1..MaxHandles : HandleClose(h)
    \/ Respond

SpecParallel == Init /\ [][NextParallel]_vars

(***************************************************************************)
(* The object-storage adapter on its own: its four read operations are     *)
(* called for every user and remote path, over buckets that hold the       *)
(* pricelist, other objects, both or nothing.                              *)
(***************************************************************************)
OtherObjects ==
    ("alice/Hinnat/other.zip" :> Bytes(<<2>>)) @@ ("alice/secret.txt" :> Bytes(<<1, 1>>))
    @@ ("bob/Hinnat/x.csv" :> Bytes(<<0, 2>>)) @@ ("bob/Hinnat/" :> EmptyBytes)

Buckets ==
    {InitialBucket, OtherObjects, InitialBucket @@ OtherObjects,
     ("bob/Hinnat/salhydro_kaikki.zip" :> Bytes(<<2, 0, 2>>)) @@ InitialBucket
         @@ OtherObjects}

RemotePaths ==
    {"Hinnat/salhydro_kaikki.zip", "/Hinnat/salhydro_kaikki.zip", "salhydro_kaikki.zip",
     "Hinnat/other.zip", "secret.txt", "Hinnat/x.csv", "Hinnat", "Hinnat/", "/Hinnat",
     "", "/", "in/a.txt"}

InitStorage ==
    /\ variant = "s3"
    /\ backend \in BackendStates
    /\ session = [c \in Sessions |-> [state |-> "new", username |-> "", apiKey |-> ""]]
    /\ handles = <<>>
    /\ table = {}
    /\ bucket \in Buckets
    /\ reply = NoRequest

(* What an adapter operation called on its own answered. *)
Returned(fn, username, remotePath, res) ==
    [conn |-> "", op |-> fn, Method |-> "", Filepath |-> remotePath, handle |-> 0,
     resp |-> Deny(""), login |-> NoLogin, username |-> username, res |-> res]

DownloadFile(username, remotePath) ==
    /\ Idle
    /\ reply' = Returned("DownloadFile", username, remotePath,
                        S3Storage_DownloadFile(username, remotePath))
    /\ UNCHANGED <<variant, backend, session, handles, table, bucket>>

ListFiles(username, remotePath) ==
    /\ Idle
    /\ reply' = Returned("ListFiles", username, remotePath,
                        S3Storage_ListFiles(username, remotePath))
    /\ UNCHANGED <<variant, backend, session, handles, table, bucket>>

FileExists(username, remotePath) ==
    /\ Idle
    /\ reply' = Returned("FileExists", username, remotePath,
                        S3Storage_FileExists(username, remotePath))
    /\ UNCHANGED <<variant, backend, session, handles, table, bucket>>

GetFileInfo(username, remotePath) ==
    /\ Idle
    /\ reply' = Returned("GetFileInfo", username, remotePath,
                        S3Storage_GetFileInfo(username, remotePath))
    /\ UNCHANGED <<variant, backend, session, handles, table, bucket>>

NextStorage ==
    \/ \E u \in Users, remotePath \in RemotePaths : DownloadFile(u, remotePath)
    \/ \E u \in Users, remotePath \in RemotePaths : ListFiles(u, remotePath)
    \/ \E u \in Users, remotePath \in RemotePaths : FileExists(u, remotePath)
    \/ \E u \in Users, remotePath \in RemotePaths : GetFileInfo(u, remotePath)
    \/ Respond

SpecStorage == InitStorage /\ [][NextStorage]_vars

(***************************************************************************)
(* The relational adapter on its own: store calls arrive from any task in  *)
(* any order, for every user, file name and content.  A call touches the   *)
(* table with one INSERT ... ON CONFLICT statement, which the database     *)
(* executes atomically, so concurrent calls take effect one after another  *)
(* in the order in which their statements complete.                        *)
(***************************************************************************)
Contents == {Bytes(<<1>>), Bytes(<<2, 1>>), [len |-> MaxFileSize + 1, nz |-> <<>>]}

InitOrders ==
    /\ variant = "s3"
    /\ backend \in BackendStates
    /\ session = [c \in Sessions |-> [state |-> "new", username |-> "", apiKey |-> ""]]
    /\ handles = <<>>
    /\ table \in InitialTables
    /\ bucket = InitialBucket
    /\ reply = NoRequest

StoreIncomingFile(username, filename, content) ==
    /\ Idle
    /\ LET res == PostgreSQL_StoreIncomingFile(username, filename, content)
       IN  /\ table' = ExecSQL(table, res.wire)
           /\ reply' = [conn |-> "", op |-> "StoreIncomingFile", Method |-> "",
                        Filepath |-> filename, handle |-> 0, resp |-> Deny(""),
                        login |-> NoLogin, username |-> username, content |-> content,
                        res |-> res]
    /\ UNCHANGED <<variant, backend, session, handles, bucket>>

ListIncomingFiles(username) ==
    /\ Idle
    /\ reply' = Returned("ListIncomingFiles", username, "",
                        PostgreSQL_ListIncomingFiles(username))
    /\ UNCHANGED <<variant, backend, session, handles, table, bucket>>

NextOrders ==
    \/ \E u \in Users, i \in 1..Len(Collation), content \in Contents :
           StoreIncomingFile(u, Collation[i], content)
    \/ \E u \in Users : ListIncomingFiles(u)
    \/ Respond

SpecOrders == InitOrders /\ [][NextOrders]_vars

(***************************************************************************)
(* Vocabulary of the properties.                                           *)
(***************************************************************************)
RequestOps == {"Fileread", "Filewrite", "Stat", "Filecmd", "Filelist"}

(* The path is outside the three directories of the published tree. *)
Disallowed(path) ==
    LET n == Realpath(path)
    IN  ~(\/ n \in {"/", "/in", "/Hinnat"}
          \/ HasPrefix(n, "/in/")
          \/ HasPrefix(n, "/Hinnat/"))

UnderIn(path) == HasPrefix(Realpath(path), "/in/")

IsAccessDenied(err) == HasPrefix(err, "access denied")

WriteOnlyDenial == "access denied: /in/ directory is write-only"

SizeLimitError == "file size exceeds 100KB limit"

StoreFunctions == {"StoreIncomingFile", "SendOrderToAPI"}

(* The file names a client gives its orders. *)
OrderNames == {"a.txt"}

Handles == 1..Len(handles)

Closed(h) == handles[h].state = "closed"

UserOf(h) == session[handles[h].conn].username

(* The content a client means by a sequence of WriteAt calls: the bytes of *)
(* the latest write covering each offset, zero where none did.             *)
MaxOf(S) == CHOOSE m \in S : \A x \in S : x <= m

Ends(writes) == {writes[i].off + Len(writes[i].p) : i \in 1..Len(writes)}

ExpectedLen(writes) == IF writes = <<>> THEN 0 ELSE MaxOf(Ends(writes))

Covering(writes, o) ==
    {i \in 1..Len(writes) : writes[i].off <= o /\ o < writes[i].off + Len(writes[i].p)}

Touched(writes) ==
    UNION {writes[i].off .. (writes[i].off + Len(writes[i].p) - 1) : i \in 1..Len(writes)}

ExpectedByte(writes, o) ==
    LET i == MaxOf(Covering(writes, o))
    IN  writes[i].p[o - writes[i].off + 1]

ExpectedContent(writes) ==
    [len |-> ExpectedLen(writes),
     nz  |-> [o \in {x \in Touched(writes) : ExpectedByte(writes, x) # 0} |->
                  ExpectedByte(writes, o)]]

(***************************************************************************)
(* C1: for every path outside '/', '/in', '/Hinnat' and their subtrees,    *)
(* every dispatcher operation (Fileread, Filewrite, Stat, Filecmd and      *)
(* Filelist with any method) answers with the access-denied error and      *)
(* makes no adapter call.                                                  *)
(***************************************************************************)
C1_DisallowedPathsDenied ==
    (reply.op \in RequestOps /\ Disallowed(reply.Filepath))
        => (IsAccessDenied(reply.resp.err) /\ reply.resp.calls = <<>>)

(***************************************************************************)
(* C2: Fileread of a path under /in, at any depth, answers with the        *)
(* write-only denial and never calls the pricelist adapter's download.     *)
(***************************************************************************)
C2_IncomingIsWriteOnly ==
    (reply.op = "Fileread" /\ UnderIn(reply.Filepath))
        => (reply.resp.err = WriteOnlyDenial /\ reply.resp.calls = <<>>)

(***************************************************************************)
(* C3: an upload to /in/<name> longer than 102400 bytes fails with the     *)
(* size-limit error, sends no HTTP request and no SQL statement and stores *)
(* nothing; content of 102400 bytes or fewer is not rejected by the size   *)
(* check.                                                                  *)
(***************************************************************************)
C3_SizeLimitOnOrders ==
    /\ \A h \in Handles, name \in OrderNames :
           (Closed(h) /\ handles[h].path = "/in/" \o name) =>
               LET n == ExpectedLen(handles[h].writes)
               IN  /\ n > MaxFileSize =>
                          /\ handles[h].err = SizeLimitError
                          /\ WireOf(handles[h].calls) = <<>>
                   /\ n <= MaxFileSize => handles[h].err # SizeLimitError
    /\ \A row \in table : row.file_content.len <= MaxFileSize

C3_Witness ==
    \E h \in Handles :
        /\ Closed(h)
        /\ handles[h].path = "/in/a.txt"
        /\ ExpectedLen(handles[h].writes) = MaxFileSize + 1
        /\ handles[h].err = SizeLimitError

(***************************************************************************)
(* C4: Filecmd with Remove, Rename or Rmdir answers access denied on every *)
(* allowed path, for every deployment, identity and backend state, and     *)
(* calls no adapter operation.                                             *)
(***************************************************************************)
C4_NoDeleteRenameRmdir ==
    (/\ reply.op = "Filecmd"
     /\ reply.Method \in {"Remove", "Rename", "Rmdir"}
     /\ isPathAllowed(reply.Filepath))
        => (IsAccessDenied(reply.resp.err) /\ reply.resp.calls = <<>>)

C4_Witness ==
    /\ reply.op = "Filecmd"
    /\ reply.Method = "Remove"
    /\ reply.Filepath = "/Hinnat/salhydro_kaikki.zip"
    /\ variant = "s3"
    /\ backend = "ok"
    /\ IsAccessDenied(reply.resp.err)

(***************************************************************************)
(* C5: in the object-storage deployment, uploading non-empty content c to  *)
(* /Hinnat/<name> and then reading the same path through the same session  *)
(* returns exactly c.                                                      *)
(***************************************************************************)
C5_HinnatRoundTrip ==
    \A h \in Handles :
        (/\ variant = "s3"
         /\ Closed(h)
         /\ handles[h].err = ""
         /\ HasPrefix(handles[h].path, "/Hinnat/")
         /\ ExpectedLen(handles[h].writes) > 0
         /\ reply.op = "Fileread"
         /\ reply.conn = handles[h].conn
         /\ reply.Filepath = handles[h].path)
            => (reply.resp.err = "" /\ reply.resp.data = ExpectedContent(handles[h].writes))

(***************************************************************************)
(* C6: every write handle opened on a path under /in, nested paths         *)
(* included, delivers its content on close to the incoming-orders adapter  *)
(* with the session's username and the file name, and never to the         *)
(* pricelist adapter's upload.                                             *)
(***************************************************************************)
C6_IncomingGoesToOrders ==
    \A h \in Handles :
        (Closed(h) /\ UnderIn(handles[h].path) /\ ExpectedLen(handles[h].writes) > 0)
            => /\ handles[h].calls # <<>>
               /\ \A i \in 1..Len(handles[h].calls) :
                      /\ handles[h].calls[i].fn \in StoreFunctions
                      /\ handles[h].calls[i].username = UserOf(h)
                      /\ handles[h].calls[i].path = Base(handles[h].path)

(***************************************************************************)
(* C7: when identity u uploads non-empty content c within the size limit   *)
(* to /in/<name>, the incoming-orders adapter receives exactly one store   *)
(* request, with username u, filename <name> (no /in/ prefix) and content  *)
(* exactly c.                                                              *)
(***************************************************************************)
C7_OneStoreRequest ==
    \A h \in Handles, name \in OrderNames :
        (/\ Closed(h)
         /\ handles[h].path = "/in/" \o name
         /\ ExpectedLen(handles[h].writes) > 0
         /\ ExpectedLen(handles[h].writes) <= MaxFileSize)
            => /\ Len(handles[h].calls) = 1
               /\ LET call == handles[h].calls[1]
                  IN  /\ call.fn \in StoreFunctions
                      /\ call.username = UserOf(h)
                      /\ call.path = name
                      /\ call.content = ExpectedContent(handles[h].writes)
                      /\ Len(call.wire) = 1
                      /\ call.wire[1].user = UserOf(h)
                      /\ call.wire[1].name = name
                      /\ call.wire[1].body = ExpectedContent(handles[h].writes)

C7_Witness ==
    \E h \in Handles :
        /\ Closed(h)
        /\ handles[h].path = "/in/a.txt"
        /\ UserOf(h) = "bob"
        /\ variant = "futur"
        /\ Len(handles[h].writes) = 2
        /\ ExpectedLen(handles[h].writes) = 4
        /\ Len(handles[h].calls) = 1

(***************************************************************************)
(* C8: for any sequence of WriteAt calls on one handle, in any offset      *)
(* order, the content flushed at close has length equal to the highest     *)
(* offset+length touched and holds at every touched offset the byte of the *)
(* write that covered it.                                                  *)
(***************************************************************************)
C8_Reassembly ==
    \A h \in Handles :
        (Closed(h) /\ handles[h].calls # <<>>) =>
            \A i \in 1..Len(handles[h].calls) :
                LET flushed == handles[h].calls[i].content
                IN  /\ flushed.len = ExpectedLen(handles[h].writes)
                    /\ \A o \in Touched(handles[h].writes) :
                           ByteAt(flushed, o) = ExpectedByte(handles[h].writes, o)

C8_Witness ==
    \E h \in Handles :
        /\ Closed(h)
        /\ handles[h].calls # <<>>
        /\ Len(handles[h].writes) = 2
        /\ handles[h].writes[1].off = 2
        /\ handles[h].writes[2].off = 0
        /\ handles[h].calls[1].content = Bytes(<<1, 2, 0, 1>>)

(***************************************************************************)
(* C9 as stated: every handle that is opened and later closed gets exactly *)
(* one upload/store call, at close, carrying the whole buffer; this for    *)
(* every content length, a file of zero bytes included.                    *)
(***************************************************************************)
C9_AlwaysOneFlush ==
    \A h \in Handles :
        /\ ~Closed(h) => handles[h].calls = <<>>
        /\ Closed(h) =>
               /\ Len(handles[h].calls) = 1
               /\ handles[h].calls[1].content = ExpectedContent(handles[h].writes)

(***************************************************************************)
(* C9 amended: a closed handle whose buffer is non-empty gets exactly one  *)
(* upload/store call, made by Close and carrying the whole buffer; a       *)
(* closed handle to which nothing was written gets none; no handler other  *)
(* than Close makes a call for a handle, and none is made while it is      *)
(* open.                                                                   *)
(***************************************************************************)
C9_OneFlushIfNonEmpty ==
    /\ \A h \in Handles :
           /\ ~Closed(h) => handles[h].calls = <<>>
           /\ (Closed(h) /\ ExpectedLen(handles[h].writes) > 0) =>
                  /\ Len(handles[h].calls) = 1
                  /\ handles[h].calls[1].content = ExpectedContent(handles[h].writes)
           /\ (Closed(h) /\ ExpectedLen(handles[h].writes) = 0) =>
                  handles[h].calls = <<>>
    /\ reply.op \in {"Filewrite", "WriteAt"} => reply.resp.calls = <<>>
    /\ reply.op = "Close" => reply.resp.calls = handles[reply.handle].calls

C9_Witness ==
    \E h \in Handles :
        /\ Closed(h)
        /\ handles[h].writes = <<>>
        /\ handles[h].calls = <<>>
        /\ reply.op = "Close"
        /\ reply.handle = h
        /\ reply.resp.err = ""

(***************************************************************************)
(* More vocabulary.                                                        *)
(***************************************************************************)
IsRoot(path) == Realpath(path) = "/"

AtOrUnderIn(path) == Realpath(path) = "/in" \/ UnderIn(path)

UnderHinnat(path) == HasPrefix(Realpath(path), "/Hinnat/")

AtOrUnderHinnat(path) == Realpath(path) = "/Hinnat" \/ UnderHinnat(path)

IsStatRequest ==
    reply.op = "Stat" \/ (reply.op = "Filelist" /\ reply.Method = "Stat")

(* The entry a client sees for a directory. *)
Directory(name) == [name |-> name, size |-> 0, isDir |-> TRUE]

(***************************************************************************)
(* C11: Mkdir is denied, with no adapter call, for the root and for every  *)
(* path at or under /in; it reaches an adapter's CreateDirectory only for  *)
(* paths under /Hinnat and only in the object-storage deployment.          *)
(***************************************************************************)
C11_MkdirOnlyInHinnat ==
    (reply.op = "Filecmd" /\ reply.Method = "Mkdir") =>
        /\ (IsRoot(reply.Filepath) \/ AtOrUnderIn(reply.Filepath)) =>
               (reply.resp.err # "" /\ reply.resp.calls = <<>>)
        /\ reply.resp.calls # <<>> =>
               (variant = "s3" /\ UnderHinnat(reply.Filepath))

C13_DirectoryReadsDenied ==
    (reply.op = "Fileread" /\ Realpath(reply.Filepath) \in {"/", "/in", "/Hinnat"})
        => (reply.resp.err # "" /\ reply.resp.calls = <<>>)

(***************************************************************************)
(* C14: a stat request for /in or /Hinnat, served by the Stat handler or   *)
(* by Filelist with method Stat, returns exactly one synthesized directory *)
(* entry (name 'in' resp. 'Hinnat', directory, size 0) without any adapter *)
(* call, in every deployment and backend state.                            *)
(***************************************************************************)
C14_TopLevelStatSynthesized ==
    /\ (IsStatRequest /\ reply.Filepath = "/in") =>
           /\ reply.resp.err = ""
           /\ reply.resp.entries = <<Directory("in")>>
           /\ reply.resp.calls = <<>>
    /\ (IsStatRequest /\ reply.Filepath = "/Hinnat") =>
           /\ reply.resp.err = ""
           /\ reply.resp.entries = <<Directory("Hinnat")>>
           /\ reply.resp.calls = <<>>

(***************************************************************************)
(* C15: listing the root returns the same sequence every time: exactly two *)
(* directory entries, 'in' then 'Hinnat', each a directory of size 0, with *)
(* no adapter call, whatever the backend state and whatever was uploaded   *)
(* in between.                                                             *)
(***************************************************************************)
C15_RootListingFixed ==
    (reply.op = "Filelist" /\ reply.Method = "List" /\ reply.Filepath \in {"/", ""})
        => /\ reply.resp.err = ""
           /\ reply.resp.entries = <<Directory("in"), Directory("Hinnat")>>
           /\ reply.resp.calls = <<>>

C15_Witness ==
    /\ reply.op = "Filelist"
    /\ reply.Method = "List"
    /\ reply.Filepath = "/"
    /\ backend = "unreachable"
    /\ \E h \in Handles : Closed(h) /\ handles[h].calls # <<>>
    /\ reply.resp.entries = <<Directory("in"), Directory("Hinnat")>>

(***************************************************************************)
(* C16 as stated: after any sequence of uploads, List('/in') never returns *)
(* an error: the empty sequence in the remote-API deployments, the session *)
(* identity's stored files by ascending name in the database-backed one,   *)
(* whatever the backend state.                                             *)
(***************************************************************************)
IsListIn == reply.op = "Filelist" /\ reply.Method = "List" /\ reply.Filepath = "/in"

StoredFor(username) == {row \in table : row.username = username}

Rank(name) == CHOOSE i \in 1..Len(Collation) : Collation[i] = name

(* The entries are the user's rows, one entry each, in ascending name order. *)
ListsStoredFiles(entries, username) ==
    /\ Len(entries) = Cardinality(StoredFor(username))
    /\ \A row \in StoredFor(username) :
           \E i \in 1..Len(entries) :
               entries[i] = [name |-> row.filename, size |-> row.file_size, isDir |-> FALSE]
    /\ \A i, j \in 1..Len(entries) :
           i < j => Rank(entries[i].name) < Rank(entries[j].name)

C16_ListInNeverFails ==
    IsListIn =>
        /\ reply.resp.err = ""
        /\ variant # "s3" => reply.resp.entries = <<>>
        /\ variant = "s3" =>
               ListsStoredFiles(reply.resp.entries, session[reply.conn].username)

(***************************************************************************)
(* C16 amended: List('/in') returns the empty sequence with no adapter     *)
(* call in the remote-API deployments; in the database-backed deployment   *)
(* it returns the session identity's stored files by ascending name while  *)
(* the database answers, and the error 'failed to list incoming files'     *)
(* with no entries when the query fails.                                   *)
(***************************************************************************)
C16_ListInFailsOnlyWithDatabase ==
    IsListIn =>
        /\ variant # "s3" =>
               /\ reply.resp.err = ""
               /\ reply.resp.entries = <<>>
               /\ reply.resp.calls = <<>>
        /\ (variant = "s3" /\ backend = "ok") =>
               /\ reply.resp.err = ""
               /\ ListsStoredFiles(reply.resp.entries, session[reply.conn].username)
        /\ (variant = "s3" /\ backend # "ok") =>
               /\ HasPrefix(reply.resp.err, "failed to list incoming files")
               /\ reply.resp.entries = <<>>

C16_Witness ==
    /\ IsListIn
    /\ variant = "s3"
    /\ backend = "ok"
    /\ \E h \in Handles : Closed(h) /\ handles[h].path = "/in/a.txt" /\ handles[h].err = ""
                          /\ handles[h].calls # <<>>
    /\ Len(reply.resp.entries) = 2
    /\ reply.resp.entries[1].name = "a.txt"
    /\ reply.resp.entries[2].name = "b.txt"

(***************************************************************************)
(* C17: a stat request for a file path under /in, served by the Stat       *)
(* handler or by Filelist with method Stat, returns an access-denied       *)
(* error, not the not-found error, never a success or an empty result, and *)
(* makes no adapter call.                                                  *)
(***************************************************************************)
C17_IncomingFilesNotStatable ==
    (IsStatRequest /\ UnderIn(reply.Filepath)) =>
        /\ IsAccessDenied(reply.resp.err)
        /\ reply.resp.calls = <<>>

(***************************************************************************)
(* C18 as stated: Filecmd with a method other than Remove, Rename, Rmdir   *)
(* and Mkdir returns sftp.ErrSSHFxOpUnsupported, not an access-denied or   *)
(* generic error, and makes no adapter call.                               *)
(***************************************************************************)
IsOtherCmd ==
    reply.op = "Filecmd" /\ reply.Method \notin {"Remove", "Rename", "Rmdir", "Mkdir"}

C18_OtherMethodsUnsupported ==
    IsOtherCmd =>
        (reply.resp.err = "sftp: operation unsupported" /\ reply.resp.calls = <<>>)

(***************************************************************************)
(* C18 amended: on a path the whitelist admits, Filecmd with a method      *)
(* other than Remove, Rename, Rmdir and Mkdir returns                      *)
(* sftp.ErrSSHFxOpUnsupported; on any other path it returns the            *)
(* access-denied error; neither makes an adapter call.                     *)
(***************************************************************************)
C18_OtherMethodsUnsupportedIfAllowed ==
    IsOtherCmd =>
        /\ reply.resp.calls = <<>>
        /\ isPathAllowed(reply.Filepath) =>
               reply.resp.err = "sftp: operation unsupported"
        /\ ~isPathAllowed(reply.Filepath) =>
               reply.resp.err = "access denied: path not allowed"

C18_Witness ==
    /\ reply.op = "Filecmd"
    /\ reply.Method = "Symlink"
    /\ reply.Filepath = "/in/a.txt"
    /\ variant = "futur"
    /\ reply.resp.err = "sftp: operation unsupported"

(***************************************************************************)
(* C19: in the remote-API adapters, when the HTTP call fails at transport  *)
(* level or the response is not 2xx, the download or order upload returns  *)
(* an error to the dispatcher: never data, never success.                  *)
(***************************************************************************)
HttpFailed(call) ==
    /\ backend # "ok"
    /\ \E i \in 1..Len(call.wire) : call.wire[i].proto = "http"

C19_HttpFailureIsAnError ==
    /\ \A i \in 1..Len(reply.resp.calls) :
           HttpFailed(reply.resp.calls[i]) =>
               /\ reply.resp.calls[i].err # ""
               /\ reply.resp.err # ""
               /\ reply.resp.data = EmptyBytes
    /\ \A h \in Handles : \A i \in 1..Len(handles[h].calls) :
           HttpFailed(handles[h].calls[i]) =>
               (handles[h].calls[i].err # "" /\ handles[h].err # "")

(***************************************************************************)
(* C20: for any interleaving of concurrent sessions, the identity bound to *)
(* a dispatcher does not change after construction, and every adapter call *)
(* made for a session carries the username and the credential of that      *)
(* session's own identity, never another session's.  (A call carries a     *)
(* credential where the adapter sends the user's API key; the requests of  *)
(* the pricelist storage, S3 and SQL carry none.)                          *)
(***************************************************************************)
OtherKeys(username) == {ApiKeyOf(u) : u \in Users \ {username}}

SendsUserKey(q) == q.proto = "http" /\ q.target \in {"/api/futur/order", "/api/futur/pricelist"}

CarriesIdentity(call, username) ==
    /\ call.username = username
    /\ \A i \in 1..Len(call.wire) :
           /\ call.wire[i].user = username
           /\ call.wire[i].auth \notin OtherKeys(username)
           /\ SendsUserKey(call.wire[i]) => call.wire[i].auth = ApiKeyOf(username)

HandlerOps == RequestOps \cup {"WriteAt", "Close"}

HandlesOf(c) == {h \in Handles : handles[h].conn = c}

FailedLogin == reply.op = "passwordCallback" /\ reply.login.res.err # ""

AcceptedLogin == reply.op = "passwordCallback" /\ reply.login.res.err = ""

(***************************************************************************)
(* C21: no filesystem operation is dispatched for a connection before its  *)
(* user has authenticated successfully.  A session starts serving only     *)
(* after an accepted password; a handler answers only on a serving         *)
(* session; a failed authentication changes nothing but the answer to the  *)
(* client and makes no adapter call; and a connection whose handshake      *)
(* failed stays closed, with no dispatcher identity and no write handle.   *)
(***************************************************************************)
C21_NoDispatchBeforeAuthentication ==
    [][\A c \in Sessions :
         /\ (session'[c].state = "open" /\ session[c].state # "open") =>
                session[c].state = "authenticated"
         /\ (session'[c].state = "authenticated" /\ session[c].state # "authenticated") =>
                (reply'.conn = c /\ reply'.op = "passwordCallback"
                 /\ reply'.login.res.err = "")
         /\ (reply'.conn = c /\ reply'.op \in HandlerOps /\ reply' # reply) =>
                session[c].state = "open"
         /\ (reply'.conn = c /\ reply'.op = "passwordCallback"
             /\ reply'.login.res.err # "") =>
                (/\ session' = session
                 /\ reply'.resp.calls = <<>>
                 /\ reply'.resp.err = "authentication failed"
                 /\ UNCHANGED <<handles, table, bucket>>)
         /\ session[c].state = "rejected" => session'[c] = session[c]
         /\ session'[c].state = "rejected" =>
                (/\ session'[c].username = ""
                 /\ \A h \in 1..Len(handles') : handles'[h].conn # c)
      ]_vars

(* One connection was turned away while the other is being served. *)
C21_Witness ==
    /\ session["c1"].state = "rejected"
    /\ session["c2"].state = "open"
    /\ reply.conn = "c2"
    /\ reply.op = "Fileread"
    /\ reply.resp.calls # <<>>

(***************************************************************************)
(* C22: a connection is authenticated only when the authentication backend *)
(* accepts the presented credentials: in the API deployments only when the *)
(* login endpoint is reached and answers success for that username and     *)
(* password, in the database deployment only when the query succeeds and   *)
(* finds an active user whose stored hash matches the password.            *)
(***************************************************************************)
BackendAccepts(login) ==
    /\ login.world = "ok"
    /\ IF variant = "s3"
       THEN \E r \in UsersTable :
                /\ r.username = login.username
                /\ r.is_active
                /\ r.password_hash = GenerateFromPassword(login.password)
       ELSE <<login.username, login.password>> \in Accounts

C22_AuthenticatedOnlyIfBackendAccepts ==
    (AcceptedLogin \/ (reply.op = "passwordCallback"
                       /\ session[reply.conn].state = "authenticated"))
        => BackendAccepts(reply.login)

(***************************************************************************)
(* C23: after a request that is denied or fails (policy denial, size-limit *)
(* error, backend error, unsupported method) the session stays open: the   *)
(* step that produces the failure leaves every session as it was, the      *)
(* identity of the dispatcher included, and the session it came from is    *)
(* still serving.                                                          *)
(***************************************************************************)
C23_FailureKeepsSessionOpen ==
    [][(reply' # reply /\ reply'.op \in HandlerOps /\ reply'.resp.err # "") =>
           (/\ session' = session
            /\ \A c \in Sessions :
                   reply'.conn = c =>
                       (session'[c].state = "open" /\ Dispatcher(c)' = Dispatcher(c)))
      ]_vars

(* An upload failed at Close, and the session's next request, a listing of *)
(* the root, is answered as ever.                                          *)
C23_Witness ==
    /\ reply.op = "Filelist"
    /\ reply.Filepath = "/"
    /\ reply.resp.err = ""
    /\ Len(reply.resp.entries) = 2
    /\ session[reply.conn].state = "open"
    /\ \E h \in HandlesOf(reply.conn) : Closed(h) /\ handles[h].err # ""

(***************************************************************************)
(* C24: the object-storage adapter exposes exactly one file name,          *)
(* salhydro_kaikki.zip, whatever else the bucket holds.  ListFiles never   *)
(* returns a file entry with another name; for every remote path other     *)
(* than Hinnat/salhydro_kaikki.zip FileExists is false (the directory      *)
(* Hinnat apart, which exists as a directory) and GetFileInfo and          *)
(* DownloadFile fail with not-found without reading the bucket.            *)
(***************************************************************************)
PricelistPath == "Hinnat/salhydro_kaikki.zip"

NotFound(remotePath) == "file not found: " \o remotePath

PricelistKey(c) == getUserPath(session[c].username, PricelistPath)

C25_PricelistListedAndRead ==
    (/\ variant = "s3"
     /\ backend = "ok"
     /\ reply.op \in {"Filelist", "Fileread"}
     /\ PricelistKey(reply.conn) \in DOMAIN bucket)
        => LET object == bucket[PricelistKey(reply.conn)]
           IN  /\ (reply.op = "Filelist" /\ reply.Method = "List"
                   /\ reply.Filepath = "/Hinnat") =>
                      (/\ reply.resp.err = ""
                       /\ reply.resp.entries =
                              <<FileInfo("salhydro_kaikki.zip", object.len, FALSE)>>)
               /\ (reply.op = "Fileread"
                   /\ reply.Filepath = "/Hinnat/salhydro_kaikki.zip") =>
                      (reply.resp.err = "" /\ reply.resp.data = object)

(***************************************************************************)
(* C26: in the relational adapter, after any interleaving of successful    *)
(* store calls the table holds at most one row per (username, filename)    *)
(* pair, and that row's content and size are those of the last store to    *)
(* complete; a store for one pair never changes the row of another pair,   *)
(* and a store that fails changes no row.                                  *)
(***************************************************************************)
SamePair(r, username, filename) == r.username = username /\ r.filename = filename

C26_OneRowPerPair ==
    /\ \A r1, r2 \in table : SamePair(r1, r2.username, r2.filename) => r1 = r2
    /\ (reply.op = "StoreIncomingFile" /\ reply.res.err = "") =>
           \E r \in table :
               /\ SamePair(r, reply.username, reply.Filepath)
               /\ r.file_content = reply.content
               /\ r.file_size = reply.content.len

C26_OtherRowsKept ==
    (reply'.op = "StoreIncomingFile" /\ reply' # reply) =>
        /\ \A r \in table :
               ~SamePair(r, reply'.username, reply'.Filepath) => r \in table'
        /\ \A r \in table' :
               ~SamePair(r, reply'.username, reply'.Filepath) => r \in table
        /\ reply'.res.err # "" => table' = table

C26_LastStoreWins == []C26_OneRowPerPair /\ [][C26_OtherRowsKept]_vars

(* A stored order of bob was replaced by a later store of other content,   *)
(* next to rows of other pairs.                                            *)
C26_Witness ==
    /\ reply.op = "StoreIncomingFile"
    /\ reply.res.err = ""
    /\ reply.username = "bob"
    /\ reply.Filepath = "a.txt"
    /\ reply.content = Bytes(<<1>>)
    /\ Row("bob", "b.txt", Bytes(<<0>>)) \in table
    /\ Row("alice", "a.txt", Bytes(<<2, 1>>)) \in table
    /\ Cardinality(table) = 4

(***************************************************************************)
(* C27: for every client request the dispatcher makes at most one adapter  *)
(* call and, when that call fails, returns the adapter's error to the      *)
(* caller unchanged, with no data and no entries: it does not retry, does  *)
(* not wrap or replace the error, and substitutes no result.               *)
(***************************************************************************)
FailedCall == reply.resp.calls # <<>> /\ reply.resp.calls[1].err # ""

NothingReturned == reply.resp.data = EmptyBytes /\ reply.resp.entries = NoEntries

C27_AdapterErrorUnchanged ==
    reply.op \in RequestOps =>
        /\ Len(reply.resp.calls) <= 1
        /\ FailedCall => (reply.resp.err = reply.resp.calls[1].err /\ NothingReturned)

(* C27 as the code has it: the adapter's error comes back unchanged from   *)
(* every operation but the listing of /in in the object-storage            *)
(* deployment, which puts "failed to list incoming files: " before it.     *)
ListingPrefix == "failed to list incoming files: "

C27_AdapterErrorKept ==
    reply.op \in RequestOps =>
        /\ Len(reply.resp.calls) <= 1
        /\ FailedCall =>
               /\ NothingReturned
               /\ IF reply.resp.calls[1].fn = "ListIncomingFiles"
                  THEN reply.resp.err = ListingPrefix \o reply.resp.calls[1].err
                  ELSE reply.resp.err = reply.resp.calls[1].err

(* The pricelist download of the FUTUR API deployment fails on the         *)
(* transport and the client gets that error.                               *)
C27_Witness ==
    /\ reply.op = "Fileread"
    /\ variant = "futur"
    /\ backend = "unreachable"
    /\ FailedCall
    /\ reply.resp.err = "HTTP request failed"

(***************************************************************************)
(* C28: every dispatcher operation gives the same outcome (allow or deny,  *)
(* and the same adapter routing) for a path and for its normalized form:   *)
(* "" and "." behave as "/", and a path without a leading slash behaves as *)
(* the same path with the slash added; Realpath always returns a path      *)
(* beginning with "/".                                                     *)
(***************************************************************************)
(* Whether the request was let through, the adapter operations it was      *)
(* routed to, and the kind of writer it was given.                         *)
Outcome(resp) ==
    [allowed |-> resp.err = "" \/ resp.calls # <<>>,
     routing |-> [i \in 1..Len(resp.calls) |-> resp.calls[i].fn],
     writer  |-> resp.writer.kind]

(* The answer of the handler of reply to the same request on another path. *)
AnswerFor(path) ==
    LET fs == Dispatcher(reply.conn)
        r  == [Method |-> reply.Method, Filepath |-> path]
    IN  CASE reply.op = "Fileread" -> DoFileread(fs, r)
          [] reply.op = "Filewrite" -> DoFilewrite(fs, r)
          [] reply.op = "Filecmd" -> DoFilecmd(fs, r)
          [] reply.op = "Filelist" -> DoFilelist(fs, r)
          [] OTHER -> APIFileSystem_Stat(fs, r)

C28_NormalizedPathSameOutcome ==
    reply.op \in RequestOps =>
        /\ HasPrefix(Realpath(reply.Filepath), "/")
        /\ Outcome(reply.resp) = Outcome(AnswerFor(Realpath(reply.Filepath)))

(***************************************************************************)
(* C29: when two WriteAt calls on the same write handle execute            *)
(* concurrently, interleaved at the granularity of the grow, replace and   *)
(* copy steps of the buffer, the content flushed at close still contains   *)
(* both segments at their offsets: no written segment is lost, no call     *)
(* fails, and the buffer length is the highest offset+length touched.      *)
(***************************************************************************)
HoldsSegment(content, arg) ==
    \A k \in 1..Len(arg.p) : ByteAt(content, arg.off + k - 1) = arg.p[k]

C29_ParallelWritesKept ==
    \A h \in Handles :
        /\ handles[h].state # "panicked"
        /\ (Closed(h) /\ handles[h].writes # <<>>) =>
               /\ handles[h].calls # <<>>
               /\ handles[h].calls[1].content.len = ExpectedLen(handles[h].writes)
               /\ \A i \in 1..Len(handles[h].writes) :
                      HoldsSegment(handles[h].calls[1].content, handles[h].writes[i])

(***************************************************************************)
(* C30: WriteAt on a write handle with a non-negative offset always        *)
(* succeeds and reports len(p) bytes written, whatever the resulting       *)
(* buffer size; the buffer never shrinks, its length is the highest        *)
(* offset touched and untouched gaps read as zero bytes; for /in handles   *)
(* the 100 KB ceiling is applied only at Close and to the buffer length,   *)
(* so a single short write at an offset beyond 102400 makes Close fail     *)
(* with the size-limit error and nothing is sent.                          *)
(***************************************************************************)
C30_WriteAtSucceeds ==
    /\ reply.op = "WriteAt" =>
           LET h   == reply.handle
               arg == handles[h].writes[Len(handles[h].writes)]
           IN  /\ reply.resp.err = ""
               /\ reply.n = Len(arg.p)
               /\ handles[h].w.data.len >= arg.off + Len(arg.p)
    /\ \A h \in Handles :
           /\ handles[h].w.data.len = ExpectedLen(handles[h].writes)
           /\ DOMAIN handles[h].w.data.nz \subseteq Touched(handles[h].writes)
           /\ (Closed(h) /\ handles[h].w.kind = "incomingWriterAt") =>
                  /\ handles[h].err = SizeLimitError <=>
                         handles[h].w.data.len > MaxFileSize
                  /\ handles[h].w.data.len > MaxFileSize =>
                         (handles[h].calls # <<>> /\ handles[h].calls[1].wire = <<>>)

C30_BufferNeverShrinks ==
    \A h \in 1..Len(handles) :
        h <= Len(handles') /\ handles'[h].w.data.len >= handles[h].w.data.len

C30_LimitOnlyAtClose == []C30_WriteAtSucceeds /\ [][C30_BufferNeverShrinks]_vars

(* One byte written beyond the limit, accepted by WriteAt and refused at   *)
(* Close.                                                                  *)
C30_Witness ==
    /\ reply.op = "Close"
    /\ handles[reply.handle].w.kind = "incomingWriterAt"
    /\ handles[reply.handle].writes = <<[off |-> MaxFileSize + 1, p |-> <<2>>]>>
    /\ handles[reply.handle].w.data.len = MaxFileSize + 2
    /\ reply.resp.err = SizeLimitError

====
